---- MODULE Spec2Model ----
(***************************************************************************)
(* State-machine model of the MOQ server lifecycle of okdaichi/gomoqt      *)
(* (moqt/server.go): lazy init, the listener set, the active-session set,  *)
(* the shutdown flag, the done channel, Close, Shutdown, the accept loop   *)
(* and the per-connection handlers.  Every goroutine is a process with a   *)
(* program counter; one action is one step between two synchronisation     *)
(* points (an atomic load/store, a channel operation, a critical section   *)
(* of one mutex, which is one step: lock, body, unlock).                   *)
(***************************************************************************)
EXTENDS Naturals, FiniteSets, Sequences, TLC

\* ---------------------------------------------------------------- bounds
\* Goroutines calling Close / Shutdown (one call each).
NumCallers == 2
\* Goroutines running ServeQUICListener (one listener each).
NumListeners == 1
\* Connections handed to ServeQUICConn / HandleWebTransport; connection h
\* yields session h when its setup handler accepts.
NumConns == 2

\* Goroutines inside a server method at the same time.
MaxInFlight == 2

Callers == 1..NumCallers
Lns == 1..NumListeners
Conns == 1..NumConns

\* ------------------------------------------------------- process identity
NoProc == <<"none", 0>>
CallerP(c) == <<"caller", c>>
LstnP(l) == <<"lstn", l>>
ConnP(h) == <<"conn", h>>
SessP(h) == <<"sess", h>>

\* Identical goroutines are numbered in the order in which they start.
InOrder(f, i) == IF i = 1 THEN TRUE ELSE f[i - 1].pc # "idle"

\* ----------------------------------------------------------- Go map values
\* A Go map field is nil or a set of keys.
NilMap == [isNil |-> TRUE, keys |-> {}]
MakeMap == [isNil |-> FALSE, keys |-> {}]
MapLen(m) == Cardinality(m.keys)
Has(m, k) == k \in m.keys
MapAdd(m, k) == [isNil |-> FALSE, keys |-> m.keys \cup {k}]
MapDelete(m, k) == [m EXCEPT !.keys = m.keys \ {k}]

\* ------------------------------------------------------------------ state
VARIABLES
    inShutdown,     \* Server.inShutdown (atomic.Bool)
    initOnce,       \* Server.initOnce: "fresh", "running", "done"
    initBy,         \* the goroutine inside initOnce.Do
    listeners,      \* Server.listeners
    listenerGroup,  \* Server.listenerGroup counter
    listenerMu,     \* holder of Server.listenerMu between two steps
    activeSess,     \* Server.activeSess
    sessMu,         \* holder of Server.sessMu between two steps
    doneChan,       \* Server.doneChan: "nil", "open", "closed"
    wtServer,       \* Server.wtServer: "nil", "set"
    crashed,        \* an unrecovered panic has ended the program
    lnCloseCalls,   \* per listener: number of ln.Close() calls
    wtCloseCalls,   \* number of wtServer.Close() calls
    closeLog,       \* history: one record per close(doneChan) executed
    caller,         \* per Close/Shutdown goroutine
    lstn,           \* per ServeQUICListener goroutine
    conn,           \* per connection handler
    connEv,         \* what the last step returned / dispatched, if it was a
                    \* connection handler's (history, one step deep)
    fb,             \* a BytesBuffer of moq-web/src/frame.ts: #buf, #len
    ub,             \* a BytesBuffer of the second copy of the class: #buf, #len
    lastW,          \* history: the argument of the last write, if any
    fev,            \* history: the last BytesBuffer operation and its results
    trackDone,      \* the track context has been cancelled
    pend,           \* callbacks queued on the track context's done(), not yet run
    gctx,           \* per side, the derived context: err() set, and the cause
    stream,         \* per side, the transport stream: calls made on it
    ghist,          \* history per side: the first cancel(code) call
    wire,           \* the bytes the send stream has accepted, in order
    wcall,          \* the writeFrame calls in flight: where each one is
    rd,             \* the reader: bytes consumed, and the readFrame in flight
    flog,           \* history: frames written and delivered, calls made
    gev,            \* history: the last writeFrame / readFrame return
    wts,            \* the serverWrapper NewServer returned, and its server
    wsd,            \* a serverWrapper.Shutdown call and its goroutine
    wtev,           \* history: the last serverWrapper call and its result
    su,             \* a connection in session setup: inputs, results
    mtx             \* who holds listenerMu and sessMu; where each goroutine is

srvVars == <<inShutdown, initOnce, initBy, listeners, listenerGroup, listenerMu,
             activeSess, sessMu, doneChan, wtServer, crashed, lnCloseCalls,
             wtCloseCalls, closeLog>>
moqtVars == <<inShutdown, initOnce, initBy, listeners, listenerGroup, listenerMu,
              activeSess, sessMu, doneChan, wtServer, crashed, lnCloseCalls,
              wtCloseCalls, closeLog, caller, lstn, conn, connEv>>
frameVars == <<fb, ub, lastW, fev>>
groupVars == <<trackDone, pend, gctx, stream, ghist>>
wireVars == <<wire, wcall, rd, flog, gev>>
wtVars == <<wts, wsd, wtev>>
setupVars == <<su>>
lockVars == <<mtx>>
vars == <<moqtVars, frameVars, groupVars, wireVars, wtVars, setupVars, lockVars>>

\* Error values returned to callers.
ErrServerClosed == "ErrServerClosed"
ErrShuttingDownText == "server is shutting down"
ErrUnsupportedProtocol == "unsupported protocol"
ErrAccept == "failed to accept QUIC connection"
ErrUpgrade == "failed to upgrade connection"
ErrSetup == "failed to accept session stream"
RetNil == "nil"
NoRet == "none"

\* ALPN values and session close codes.
NextProtoH3 == "h3"
NextProtoMOQ == "moq"
OtherProto == "other"
Protos == {NextProtoH3, NextProtoMOQ, OtherProto}
NoError == "NoError"
GoAwayTimeoutErrorCode == "GoAwayTimeoutErrorCode"

\* No connection-handler event in the last step.
NoEv == [h |-> 0, entry |-> "none", alpn |-> "none", ret |-> NoRet,
         refused |-> FALSE, calls |-> {}]

\* The goroutines that are inside a server method.
InFlight ==
    Cardinality({c \in Callers : caller[c].pc \notin {"idle", "returned", "panicked"}})
    + Cardinality({l \in Lns : lstn[l].pc \notin {"idle", "returned"}})
    + Cardinality({h \in Conns : conn[h].pc \notin {"idle", "returned"}})

\* Goroutine number i of the family f may start.
MayStart(f, i) == InOrder(f, i) /\ InFlight < MaxInFlight

\* A Close/Shutdown goroutine outside its call.  op and ret are the call and
\* its result; the other fields are the history of the call in progress:
\* ctxDone (the context of Shutdown has fired), atCall (the sessions active
\* when the call was made), inTime (when ctx fired, all of those had been
\* removed), fanSet (the sessions reached by the first fan-out: goAway in
\* Shutdown, CloseWithError(NoError) in Close), forcedSet (the sessions
\* closed with GoAwayTimeoutErrorCode), ctxFirst (the select of Shutdown took
\* the ctx branch while the done channel was not closed).
IdleCaller == [pc |-> "idle", op |-> "none", ret |-> NoRet, ctxDone |-> FALSE,
               ctxFirst |-> FALSE, atCall |-> {}, inTime |-> TRUE, fanSet |-> {}, forcedSet |-> {},
               wt |-> "none"]

\* The zero Server value: no method has run yet.
ServerZero ==
    /\ inShutdown = FALSE
    /\ initOnce = "fresh"
    /\ initBy = NoProc
    /\ listeners = NilMap
    /\ listenerGroup = 0
    /\ listenerMu = NoProc
    /\ activeSess = NilMap
    /\ sessMu = NoProc
    /\ doneChan = "nil"
    /\ wtServer = "nil"
    /\ crashed = FALSE
    /\ lnCloseCalls = [l \in Lns |-> 0]
    /\ wtCloseCalls = 0
    /\ closeLog = <<>>
    /\ caller = [c \in Callers |-> IdleCaller]
    /\ lstn = [l \in Lns |-> [pc |-> "idle", ret |-> NoRet, refused |-> FALSE]]
    /\ conn = [h \in Conns |-> [pc |-> "idle", entry |-> "none"]]
    /\ connEv = NoEv

\* No BytesBuffer has been constructed or used.
FrameIdle ==
    /\ fb = [buf |-> <<>>, len |-> 0]
    /\ ub = [buf |-> <<>>, len |-> 0]
    /\ lastW = <<>>
    /\ fev = [op |-> "none"]

\* ---------------------------------------------- group streams, at rest
\* The two ends of one group stream and the contexts derived for them.
Sides == {"writer", "reader"}

\* writeFrame calls that may be in flight at once, and calls made in all
MaxWriters == 2
MaxFrames == 2

NoCause == "none"
\* what err() / cause are after cancelFunc(undefined)
Canceled == "context canceled"
\* the cause a context inherits when its parent is cancelled
ParentCause == "parent cause"

\* A GroupWriter and a GroupReader have been constructed on a live track
\* context and an open stream; nothing has been called on them.
GroupFresh ==
    /\ trackDone = FALSE
    /\ pend = {}
    /\ gctx = [s \in Sides |-> [err |-> FALSE, cause |-> NoCause]]
    /\ stream = [s \in Sides |-> [closes |-> 0, cancels |-> <<>>, broken |-> FALSE]]
    /\ ghist = [s \in Sides |-> [first |-> NoCause, by |-> "none", live |-> FALSE]]
    /\ wire = <<>>
    /\ wcall = [w \in 1..MaxWriters |-> [pc |-> "idle", bytes |-> <<>>]]
    /\ rd = [pos |-> 0, pc |-> "idle", len |-> 0]
    /\ flog = [written |-> <<>>, sunk |-> <<>>, started |-> 0,
               overlapped |-> FALSE, failed |-> FALSE]
    /\ gev = [op |-> "none"]

\* ------------------------------------- WebTransport wrapper, at rest
\* NewServer has not been called.
NoWrapper ==
    /\ wts = [made |-> FALSE]
    /\ wsd = [pc |-> "idle", go |-> "none", ctxDone |-> FALSE, closeCh |-> "none",
             first |-> "none"]
    /\ wtev = [op |-> "none"]

\* ------------------------------------------------- session setup, at rest
NoSetup == su = [pc |-> "idle"]

\* ------------------------------------------------------ the two mutexes
NumLockProcs == 2
LockProcs == 1..NumLockProcs
Mutexes == {"listenerMu", "sessMu"}
Unheld == 0

\* Both mutexes free, no goroutine inside a function of the server.
LocksFree ==
    mtx = [held |-> [m \in Mutexes |-> Unheld],
          at |-> [p \in LockProcs |-> [fn |-> "none", pos |-> 0]]]

Init ==
    /\ ServerZero
    /\ FrameIdle
    /\ GroupFresh
    /\ NoWrapper
    /\ NoSetup
    /\ LocksFree

\* func (s *Server) shuttingDown() bool
shuttingDown == inShutdown

\* ------------------------------------------------------------- lazy init
\* func (s *Server) init(): initOnce.Do runs the body in the first caller and
\* blocks every other caller until the body has returned.  The body assigns
\* listeners, doneChan and activeSess (first step) and then wtServer (second
\* step); goroutines that do not go through init() can observe the fields
\* between the two steps.  fin says whether init() has returned to p.
ServerInit(p, fin) ==
    \/ /\ initOnce = "done"
       /\ fin
       /\ UNCHANGED <<initOnce, initBy, listeners, doneChan, activeSess, wtServer>>
    \/ /\ initOnce = "fresh"
       /\ ~fin
       /\ initOnce' = "running"
       /\ initBy' = p
       /\ listeners' = MakeMap
       /\ doneChan' = "open"
       /\ activeSess' = MakeMap
       /\ UNCHANGED wtServer
    \/ /\ initOnce = "running"
       /\ initBy = p
       /\ fin
       /\ initOnce' = "done"
       /\ initBy' = NoProc
       /\ wtServer' = "set"
       /\ UNCHANGED <<listeners, doneChan, activeSess>>

\* ----------------------------------------------------------- done channel
\* close(s.doneChan) executed by p, lk being the holder of sessMu and m the
\* active-session set at that moment: closing a nil channel or a closed
\* channel panics.  closeLog records every close executed on a non-nil
\* channel.
CloseDone(p, lk, m) ==
    /\ doneChan' = IF doneChan = "open" THEN "closed" ELSE doneChan
    /\ crashed' = (crashed \/ doneChan # "open")
    /\ closeLog' = IF doneChan = "nil" THEN closeLog
                   ELSE Append(closeLog, [by |-> p,
                                          locked |-> (lk = p),
                                          empty |-> (MapLen(m) = 0),
                                          flag |-> inShutdown])

NoCloseDone == UNCHANGED <<doneChan, crashed, closeLog>>

\* A close(s.doneChan) with no select around it.
CloseDoneUnguarded(p, lk, m) == CloseDone(p, lk, m)

\* select { case <-s.doneChan: default: close(s.doneChan) }
SelectCloseDone(p, lk, m) ==
    IF doneChan = "closed" THEN NoCloseDone ELSE CloseDone(p, lk, m)

\* The program counter after init(): a goroutine whose initOnce.Do finds the
\* once already done goes straight on; otherwise it runs or awaits the body.
AfterInit(next) == IF initOnce = "done" THEN next ELSE "init"

\* ---------------------------------------------------- Close and Shutdown
SetCaller(c, r) == caller' = [caller EXCEPT ![c] = r]

\* A call that goes on whatever the shutdown flag says.
ShutdownCheckSkipped(r, kind) ==
    [r EXCEPT !.pc = "store", !.op = kind, !.atCall = activeSess.keys]

\* Close / Shutdown, first statement: if s.shuttingDown() { return ErrServerClosed }
ShutdownCheck(r, kind) ==
    IF shuttingDown
    THEN [r EXCEPT !.pc = "returned", !.op = kind, !.ret = ErrServerClosed]
    ELSE [r EXCEPT !.pc = "store", !.op = kind, !.atCall = activeSess.keys]

CallerStart(c, kind) ==
    /\ ~crashed
    /\ caller[c].pc = "idle"
    /\ MayStart(caller, c)
    /\ SetCaller(c, ShutdownCheck(caller[c], kind))
    /\ connEv' = NoEv
    /\ UNCHANGED <<inShutdown, initOnce, initBy, listeners, listenerGroup,
                   listenerMu, activeSess, sessMu, doneChan, wtServer,
                   crashed, lnCloseCalls, wtCloseCalls, closeLog, lstn, conn,
                   frameVars, groupVars, wireVars, wtVars, setupVars,
                   lockVars>>

\* s.inShutdown.Store(true); Close then calls s.init(), Shutdown does not.
CallerStore(c) ==
    /\ ~crashed
    /\ caller[c].pc = "store"
    /\ inShutdown' = TRUE
    /\ SetCaller(c, [caller[c] EXCEPT
                       !.pc = IF caller[c].op = "Close" THEN AfterInit("ln")
                              ELSE "ln"])
    /\ connEv' = NoEv
    /\ UNCHANGED <<initOnce, initBy, listeners, listenerGroup, listenerMu,
                   activeSess, sessMu, doneChan, wtServer, crashed,
                   lnCloseCalls, wtCloseCalls, closeLog, lstn, conn,
                   frameVars, groupVars, wireVars, wtVars, setupVars,
                   lockVars>>

\* Close only: s.init() when the once is not done yet
CallerInit(c) ==
    /\ ~crashed
    /\ caller[c].pc = "init"
    /\ \E fin \in BOOLEAN :
         /\ ServerInit(CallerP(c), fin)
         /\ SetCaller(c, [caller[c] EXCEPT !.pc = IF fin THEN "ln" ELSE "init"])
    /\ connEv' = NoEv
    /\ UNCHANGED <<inShutdown, listenerGroup, listenerMu, sessMu, crashed,
                   lnCloseCalls, wtCloseCalls, closeLog, lstn, conn,
                   frameVars, groupVars, wireVars, wtVars, setupVars,
                   lockVars>>

\* s.listenerMu.Lock(); for ln := range s.listeners { ln.Close() };
\* s.listenerMu.Unlock()
CallerLnClose(c) ==
    /\ ~crashed
    /\ caller[c].pc = "ln"
    /\ listenerMu = NoProc
    /\ lnCloseCalls' = [l \in Lns |-> IF Has(listeners, l) THEN lnCloseCalls[l] + 1
                                      ELSE lnCloseCalls[l]]
    /\ SetCaller(c, [caller[c] EXCEPT !.pc = "fan"])
    /\ connEv' = NoEv
    /\ UNCHANGED <<inShutdown, initOnce, initBy, listeners, listenerGroup,
                   listenerMu, activeSess, sessMu, doneChan, wtServer,
                   crashed, wtCloseCalls, closeLog, lstn, conn, frameVars,
                   groupVars, wireVars, wtVars, setupVars, lockVars>>

\* The sessions a fan-out loop "for sess := range s.activeSess" reaches.
FanOut == activeSess.keys

\* Close: s.sessMu.Lock(); go sess.CloseWithError(NoError, ...) for every
\* active session; Unlock.
\* Shutdown: func (s *Server) goAway(): Lock; sess.goAway("") for every
\* active session; Unlock.  fanSet records the sessions reached.
CallerFan(c) ==
    /\ ~crashed
    /\ caller[c].pc = "fan"
    /\ sessMu = NoProc
    /\ SetCaller(c, [caller[c] EXCEPT !.pc = "chk", !.fanSet = FanOut])
    /\ connEv' = NoEv
    /\ UNCHANGED <<inShutdown, initOnce, initBy, listeners, listenerGroup,
                   listenerMu, activeSess, sessMu, doneChan, wtServer,
                   crashed, lnCloseCalls, wtCloseCalls, closeLog, lstn, conn,
                   frameVars, groupVars, wireVars, wtVars, setupVars,
                   lockVars>>

\* Close: s.sessMu.Lock(); if len(s.activeSess) == 0 { select ...
\* close(s.doneChan) }; Unlock.
\* Shutdown: the same test; Shutdown has not called init(), so its two reads
\* of s.doneChan (the select, then the close) are separate steps that init()
\* can fall between; it holds sessMu from the one to the other.
CallerChk(c) ==
    /\ ~crashed
    /\ caller[c].pc = "chk"
    /\ sessMu = NoProc
    /\ IF caller[c].op = "Close"
       THEN /\ IF MapLen(activeSess) = 0
               THEN SelectCloseDone(CallerP(c), CallerP(c), activeSess)
               ELSE NoCloseDone
            /\ UNCHANGED sessMu
            /\ SetCaller(c, [caller[c] EXCEPT !.pc = "wait"])
       ELSE /\ NoCloseDone
            /\ IF MapLen(activeSess) = 0 /\ doneChan # "closed"
               THEN /\ sessMu' = CallerP(c)
                    /\ SetCaller(c, [caller[c] EXCEPT !.pc = "sd_close"])
               ELSE /\ UNCHANGED sessMu
                    /\ SetCaller(c, [caller[c] EXCEPT !.pc = "select"])
    /\ connEv' = NoEv
    /\ UNCHANGED <<inShutdown, initOnce, initBy, listeners, listenerGroup,
                   listenerMu, activeSess, wtServer, lnCloseCalls,
                   wtCloseCalls, lstn, conn, frameVars, groupVars, wireVars,
                   wtVars, setupVars, lockVars>>

\* Shutdown: default: close(s.doneChan); s.sessMu.Unlock().  A panic leaves
\* the mutex locked (Unlock is not deferred).
CallerSdClose(c) ==
    /\ ~crashed
    /\ caller[c].pc = "sd_close"
    /\ CloseDone(CallerP(c), sessMu, activeSess)
    /\ IF doneChan = "open"
       THEN /\ sessMu' = NoProc
            /\ SetCaller(c, [caller[c] EXCEPT !.pc = "select"])
       ELSE /\ UNCHANGED sessMu
            /\ SetCaller(c, [caller[c] EXCEPT !.pc = "panicked"])
    /\ connEv' = NoEv
    /\ UNCHANGED <<inShutdown, initOnce, initBy, listeners, listenerGroup,
                   listenerMu, activeSess, wtServer, lnCloseCalls,
                   wtCloseCalls, lstn, conn, frameVars, groupVars, wireVars,
                   wtVars, setupVars, lockVars>>

\* ctx.Done() of a Shutdown call fires (deadline or cancellation) before the
\* call has passed its select.  inTime: every session that was active when
\* Shutdown was called had been removed by then.
CtxDone(c) ==
    /\ ~crashed
    /\ caller[c].op = "Shutdown"
    /\ caller[c].pc \in {"store", "ln", "fan", "chk", "sd_close", "select"}
    /\ ~caller[c].ctxDone
    /\ SetCaller(c, [caller[c] EXCEPT
                       !.ctxDone = TRUE,
                       !.inTime = (caller[c].atCall \cap activeSess.keys = {})])
    /\ connEv' = NoEv
    /\ UNCHANGED <<inShutdown, initOnce, initBy, listeners, listenerGroup,
                   listenerMu, activeSess, sessMu, doneChan, wtServer,
                   crashed, lnCloseCalls, wtCloseCalls, closeLog, lstn, conn,
                   frameVars, groupVars, wireVars, wtVars, setupVars,
                   lockVars>>

\* Shutdown: select { case <-s.doneChan: ... case <-ctx.Done(): ... }
\* Go picks any ready case.
CallerSelect(c) ==
    /\ ~crashed
    /\ caller[c].pc = "select"
    /\ \/ /\ doneChan = "closed"
          /\ SetCaller(c, [caller[c] EXCEPT !.pc = "wait"])
       \/ /\ caller[c].ctxDone
          /\ SetCaller(c, [caller[c] EXCEPT !.pc = "force",
                                            !.ctxFirst = (doneChan # "closed")])
    /\ connEv' = NoEv
    /\ UNCHANGED <<inShutdown, initOnce, initBy, listeners, listenerGroup,
                   listenerMu, activeSess, sessMu, doneChan, wtServer,
                   crashed, lnCloseCalls, wtCloseCalls, closeLog, lstn, conn,
                   frameVars, groupVars, wireVars, wtVars, setupVars,
                   lockVars>>

\* Shutdown, ctx branch: s.sessMu.Lock(); go sess.CloseWithError(
\* GoAwayTimeoutErrorCode, ...) for every session in the set; Unlock.
\* forcedSet records the sessions reached.
CallerForce(c) ==
    /\ ~crashed
    /\ caller[c].pc = "force"
    /\ sessMu = NoProc
    /\ SetCaller(c, [caller[c] EXCEPT !.pc = "wait", !.forcedSet = FanOut])
    /\ connEv' = NoEv
    /\ UNCHANGED <<inShutdown, initOnce, initBy, listeners, listenerGroup,
                   listenerMu, activeSess, sessMu, doneChan, wtServer,
                   crashed, lnCloseCalls, wtCloseCalls, closeLog, lstn, conn,
                   frameVars, groupVars, wireVars, wtVars, setupVars,
                   lockVars>>

\* what wtServer.Close() can do
WtCloseOutcomes == {"returned", "panicked", "hung"}

\* go func() { defer func() { recover() }(); _ = s.wtServer.Close();
\* close(done) }(): done is closed when Close returned; a panic is recovered
\* and ends the goroutine with done open, the process lives on; a Close that
\* never returns leaves the goroutine there.
wtCloseGoroutine(c, out) ==
    /\ wtCloseCalls' = wtCloseCalls + 1
    /\ crashed' = crashed
    /\ SetCaller(c, [caller[c] EXCEPT !.pc = "wtsel", !.wt = out])

\* <-s.doneChan; s.listenerMu.Lock(); s.listeners = nil; Unlock; then
\* if s.wtServer != nil { done := make(chan struct{}); go func() {...}() }
\* and the caller stands at the select; with no wtServer it goes on to the
\* wait for the listeners.  The goroutine touches nothing but done, so what
\* its Close call does is drawn here.
CallerWait(c) ==
    /\ ~crashed
    /\ caller[c].pc = "wait"
    /\ doneChan = "closed"
    /\ listenerMu = NoProc
    /\ listeners' = NilMap
    /\ IF wtServer # "nil"
       THEN \E out \in WtCloseOutcomes : wtCloseGoroutine(c, out)
       ELSE /\ SetCaller(c, [caller[c] EXCEPT !.pc = "wg"])
            /\ UNCHANGED <<wtCloseCalls, crashed>>
    /\ connEv' = NoEv
    /\ UNCHANGED <<inShutdown, initOnce, initBy, listenerGroup, listenerMu,
                   activeSess, sessMu, doneChan, wtServer, lnCloseCalls,
                   closeLog, lstn, conn, frameVars, groupVars, wireVars,
                   wtVars, setupVars, lockVars>>

\* A select without the timer case.
CallerWtSelectNoTimer(c) ==
    /\ ~crashed
    /\ caller[c].pc = "wtsel"
    /\ caller[c].wt = "returned"
    /\ SetCaller(c, [caller[c] EXCEPT !.pc = "wg", !.wt = "none"])
    /\ connEv' = NoEv
    /\ UNCHANGED <<inShutdown, initOnce, initBy, listeners, listenerGroup,
                   listenerMu, activeSess, sessMu, doneChan, wtServer,
                   crashed, lnCloseCalls, wtCloseCalls, closeLog, lstn, conn,
                   frameVars, groupVars, wireVars, wtVars, setupVars,
                   lockVars>>

\* select { case <-done: case <-time.After(100 * time.Millisecond): }: the
\* timer case is ready 100 ms after the select began, whatever the goroutine
\* does.
CallerWtSelect(c) ==
    /\ ~crashed
    /\ caller[c].pc = "wtsel"
    /\ \E case \in {"done", "timer"} :
          /\ case = "done" => caller[c].wt = "returned"
          /\ SetCaller(c, [caller[c] EXCEPT !.pc = "wg", !.wt = "none"])
    /\ connEv' = NoEv
    /\ UNCHANGED <<inShutdown, initOnce, initBy, listeners, listenerGroup,
                   listenerMu, activeSess, sessMu, doneChan, wtServer,
                   crashed, lnCloseCalls, wtCloseCalls, closeLog, lstn, conn,
                   frameVars, groupVars, wireVars, wtVars, setupVars,
                   lockVars>>

\* s.listenerGroup.Wait(); return nil.  The history of the call ends with it.
CallerWg(c) ==
    /\ ~crashed
    /\ caller[c].pc = "wg"
    /\ listenerGroup = 0
    /\ SetCaller(c, [IdleCaller EXCEPT !.pc = "returned", !.op = caller[c].op,
                                       !.ret = RetNil])
    /\ connEv' = NoEv
    /\ UNCHANGED <<inShutdown, initOnce, initBy, listeners, listenerGroup,
                   listenerMu, activeSess, sessMu, doneChan, wtServer,
                   crashed, lnCloseCalls, wtCloseCalls, closeLog, lstn, conn,
                   frameVars, groupVars, wireVars, wtVars, setupVars,
                   lockVars>>

\* ------------------------------------------------------ ServeQUICListener
SetLstn(l, r) == lstn' = [lstn EXCEPT ![l] = r]

\* ServeQUICListener: if s.shuttingDown() { return ErrServerClosed }; s.init()
LstnStart(l) ==
    /\ ~crashed
    /\ lstn[l].pc = "idle"
    /\ MayStart(lstn, l)
    /\ IF shuttingDown
       THEN SetLstn(l, [lstn[l] EXCEPT !.pc = "returned", !.ret = ErrServerClosed,
                                       !.refused = TRUE])
       ELSE SetLstn(l, [lstn[l] EXCEPT !.pc = AfterInit("add")])
    /\ connEv' = NoEv
    /\ UNCHANGED <<inShutdown, initOnce, initBy, listeners, listenerGroup,
                   listenerMu, activeSess, sessMu, doneChan, wtServer,
                   crashed, lnCloseCalls, wtCloseCalls, closeLog, caller,
                   conn, frameVars, groupVars, wireVars, wtVars, setupVars,
                   lockVars>>

\* s.init() when the once is not done yet
LstnInit(l) ==
    /\ ~crashed
    /\ lstn[l].pc = "init"
    /\ \E fin \in BOOLEAN :
         /\ ServerInit(LstnP(l), fin)
         /\ SetLstn(l, [lstn[l] EXCEPT !.pc = IF fin THEN "add" ELSE "init"])
    /\ connEv' = NoEv
    /\ UNCHANGED <<inShutdown, listenerGroup, listenerMu, sessMu, crashed,
                   lnCloseCalls, wtCloseCalls, closeLog, caller, conn,
                   frameVars, groupVars, wireVars, wtVars, setupVars,
                   lockVars>>

\* func (s *Server) addListener(ln): Lock; body; deferred Unlock
addListener(l) ==
    /\ listenerMu = NoProc
    /\ listeners' = MapAdd(listeners, l)
    /\ listenerGroup' = listenerGroup + 1

LstnAdd(l) ==
    /\ ~crashed
    /\ lstn[l].pc = "add"
    /\ addListener(l)
    /\ SetLstn(l, [lstn[l] EXCEPT !.pc = "accept"])
    /\ connEv' = NoEv
    /\ UNCHANGED <<inShutdown, initOnce, initBy, listenerMu, activeSess, sessMu,
                   doneChan, wtServer, crashed, lnCloseCalls, wtCloseCalls,
                   closeLog, caller, conn, frameVars, groupVars, wireVars,
                   wtVars, setupVars, lockVars>>

\* An accept loop that classifies the error without looking at the flag.
AcceptResultByErrorAlone(cause) ==
    IF cause = "canceled" THEN ErrServerClosed ELSE ErrAccept

\* What ServeQUICListener returns for an Accept error.
AcceptResult(cause) ==
    IF shuttingDown THEN ErrServerClosed
    ELSE IF cause = "canceled" THEN ErrServerClosed
    ELSE ErrAccept

\* The accept loop: ln.Accept(ctx) fails because the listener was closed,
\* because the watcher goroutine saw shuttingDown() and cancelled ctx, or for
\* any other reason; the error is then classified.  (Accepted connections
\* are the conn processes.)
LstnAccept(l) ==
    /\ ~crashed
    /\ lstn[l].pc = "accept"
    /\ \E cause \in {"closed", "canceled", "other"} :
         /\ cause = "closed" => lnCloseCalls[l] > 0
         /\ cause = "canceled" => shuttingDown
         /\ SetLstn(l, [lstn[l] EXCEPT !.pc = "rm", !.ret = AcceptResult(cause)])
    /\ connEv' = NoEv
    /\ UNCHANGED <<inShutdown, initOnce, initBy, listeners, listenerGroup,
                   listenerMu, activeSess, sessMu, doneChan, wtServer,
                   crashed, lnCloseCalls, wtCloseCalls, closeLog, caller,
                   conn, frameVars, groupVars, wireVars, wtVars, setupVars,
                   lockVars>>

\* func (s *Server) removeListener(ln): Lock; _, ok := s.listeners[ln];
\* delete; Unlock; if ok { s.listenerGroup.Done() }
removeListener(l) ==
    /\ listenerMu = NoProc
    /\ listeners' = IF Has(listeners, l) THEN MapDelete(listeners, l) ELSE listeners
    /\ listenerGroup' = IF Has(listeners, l) THEN listenerGroup - 1 ELSE listenerGroup

\* the deferred removeListener; ServeQUICListener returns
LstnRm(l) ==
    /\ ~crashed
    /\ lstn[l].pc = "rm"
    /\ removeListener(l)
    /\ SetLstn(l, [lstn[l] EXCEPT !.pc = "returned"])
    /\ connEv' = NoEv
    /\ UNCHANGED <<inShutdown, initOnce, initBy, listenerMu, activeSess, sessMu,
                   doneChan, wtServer, crashed, lnCloseCalls, wtCloseCalls,
                   closeLog, caller, conn, frameVars, groupVars, wireVars,
                   wtVars, setupVars, lockVars>>

\* ---------------------------------------------------- connection handlers
\* What the shutdown check of a public entry point returns.
\* ServeQUICConn: return ErrServerClosed
\* HandleWebTransport: return fmt.Errorf("server is shutting down")
RefusalError(entry) ==
    IF entry = "ServeQUICConn" THEN ErrServerClosed ELSE ErrShuttingDownText

\* The handler's step as an event: e is the event so far, pc the handler's
\* next program counter.
Ev(h, entry) == [NoEv EXCEPT !.h = h, !.entry = entry]
Step(pc, e) == [pc |-> pc, ev |-> e]

\* acceptSessionStream, then SetupHandler.ServeMOQ(rsp, req).  acc: the
\* session stream was accepted and decoded; serve: the setup handler accepts
\* the session, which registers it with the server (addSession).
AcceptSetup(e, acc, serve) ==
    IF ~acc
    THEN Step("returned", [e EXCEPT !.calls = @ \cup {"acceptSessionStream"},
                                    !.ret = ErrSetup])
    ELSE IF ~serve
    THEN Step("returned", [e EXCEPT !.calls = @ \cup {"acceptSessionStream", "ServeMOQ"},
                                    !.ret = RetNil])
    ELSE Step("add", [e EXCEPT !.calls = @ \cup {"acceptSessionStream", "ServeMOQ"}])

\* A switch whose default case is the native-QUIC handler.
DispatchDefaultNative(e, alpn) ==
    IF alpn = NextProtoH3
    THEN Step("returned", [e EXCEPT !.alpn = alpn,
                                    !.calls = @ \cup {"wtServer.ServeQUICConn"},
                                    !.ret = "wtServer result"])
    ELSE Step("n_check", [e EXCEPT !.alpn = alpn,
                                   !.calls = @ \cup {"handleNativeQUIC"}])

\* ServeQUICConn: switch on conn.ConnectionState().TLS.NegotiatedProtocol
Dispatch(e, alpn) ==
    IF alpn = NextProtoH3
    THEN Step("returned", [e EXCEPT !.alpn = alpn,
                                    !.calls = @ \cup {"wtServer.ServeQUICConn"},
                                    !.ret = "wtServer result"])
    ELSE IF alpn = NextProtoMOQ
    THEN Step("n_check", [e EXCEPT !.alpn = alpn,
                                   !.calls = @ \cup {"handleNativeQUIC"}])
    ELSE Step("returned", [e EXCEPT !.alpn = alpn, !.ret = ErrUnsupportedProtocol])

\* HandleWebTransport: conn, err := s.wtServer.Upgrade(w, r), then the setup
Upgrade(e, up, acc, serve) ==
    IF up
    THEN AcceptSetup([e EXCEPT !.calls = @ \cup {"wtServer.Upgrade"}], acc, serve)
    ELSE Step("returned", [e EXCEPT !.calls = @ \cup {"wtServer.Upgrade"},
                                    !.ret = ErrUpgrade])

\* The handler after init(), up to its next synchronisation point.  The
\* steps in between read only the connection (its ALPN, its streams).
AfterConnInit(e, in) ==
    IF e.entry = "ServeQUICConn" THEN Dispatch(e, in.alpn)
    ELSE Upgrade(e, in.up, in.acc, in.serve)

\* The inputs a handler reads from its connection: the negotiated ALPN
\* (ServeQUICConn), whether the upgrade succeeds (HandleWebTransport),
\* whether the session stream is accepted and decoded, whether the setup
\* handler accepts the session.
SetupInputs == {<<FALSE, FALSE>>, <<TRUE, FALSE>>, <<TRUE, TRUE>>}
ConnInputs(entry) ==
    IF entry = "ServeQUICConn"
    THEN {[alpn |-> a, up |-> TRUE, acc |-> TRUE, serve |-> TRUE] : a \in Protos}
    ELSE {[alpn |-> NextProtoH3, up |-> FALSE, acc |-> FALSE, serve |-> FALSE]}
         \cup {[alpn |-> NextProtoH3, up |-> TRUE, acc |-> x[1], serve |-> x[2]] :
                 x \in SetupInputs}

\* The handler takes the step st.
Take(h, st) ==
    /\ conn' = [conn EXCEPT ![h] = [pc |-> st.pc,
                                    entry |-> IF st.pc = "init" THEN st.ev.entry
                                              ELSE "none"]]
    /\ connEv' = st.ev

\* ServeQUICConn / HandleWebTransport: if s.shuttingDown() { return ... };
\* s.init(); dispatch
ConnStart(h, entry) ==
    /\ ~crashed
    /\ conn[h].pc = "idle"
    /\ MayStart(conn, h)
    /\ IF shuttingDown
       THEN Take(h, Step("returned", [Ev(h, entry) EXCEPT !.refused = TRUE,
                                                          !.ret = RefusalError(entry)]))
       ELSE IF initOnce # "done"
       THEN Take(h, Step("init", Ev(h, entry)))
       ELSE \E in \in ConnInputs(entry) :
              Take(h, AfterConnInit(Ev(h, entry), in))
    /\ UNCHANGED <<inShutdown, initOnce, initBy, listeners, listenerGroup,
                   listenerMu, activeSess, sessMu, doneChan, wtServer,
                   crashed, lnCloseCalls, wtCloseCalls, closeLog, caller,
                   lstn, frameVars, groupVars, wireVars, wtVars, setupVars,
                   lockVars>>

\* s.init() when the once is not done yet; dispatch once it has returned
ConnInit(h) ==
    /\ ~crashed
    /\ conn[h].pc = "init"
    /\ \E fin \in BOOLEAN :
         /\ ServerInit(ConnP(h), fin)
         /\ IF fin
            THEN \E in \in ConnInputs(conn[h].entry) :
                   Take(h, AfterConnInit(Ev(h, conn[h].entry), in))
            ELSE Take(h, Step("init", Ev(h, conn[h].entry)))
    /\ UNCHANGED <<inShutdown, listenerGroup, listenerMu, sessMu, crashed,
                   lnCloseCalls, wtCloseCalls, closeLog, caller, lstn,
                   frameVars, groupVars, wireVars, wtVars, setupVars,
                   lockVars>>

\* handleNativeQUIC: if s.shuttingDown() { return nil }; s.init() (already
\* run by ServeQUICConn); the setup
NativeCheck(e, acc, serve) ==
    IF shuttingDown
    THEN Step("returned", [e EXCEPT !.refused = TRUE, !.ret = RetNil])
    ELSE AcceptSetup(e, acc, serve)

ConnNativeCheck(h) ==
    /\ ~crashed
    /\ conn[h].pc = "n_check"
    /\ \E x \in SetupInputs :
         Take(h, NativeCheck([Ev(h, "ServeQUICConn") EXCEPT
                                !.alpn = NextProtoMOQ,
                                !.calls = {"handleNativeQUIC"}],
                             x[1], x[2]))
    /\ UNCHANGED <<inShutdown, initOnce, initBy, listeners, listenerGroup,
                   listenerMu, activeSess, sessMu, doneChan, wtServer,
                   crashed, lnCloseCalls, wtCloseCalls, closeLog, caller,
                   lstn, frameVars, groupVars, wireVars, wtVars, setupVars,
                   lockVars>>

\* func (s *Server) addSession(sess): Lock; s.activeSess[sess] = struct{}{};
\* deferred Unlock
\* (an assignment to an entry of a nil map panics)
addSession(h) ==
    /\ sessMu = NoProc
    /\ activeSess' = IF activeSess.isNil THEN activeSess ELSE MapAdd(activeSess, h)
    /\ crashed' = (crashed \/ activeSess.isNil)

\* the setup handler registers the session; the handler returns nil
ConnAdd(h) ==
    /\ ~crashed
    /\ conn[h].pc = "add"
    /\ addSession(h)
    /\ Take(h, Step("returned", [Ev(h, "none") EXCEPT !.calls = {"addSession"},
                                                      !.ret = RetNil]))
    /\ UNCHANGED <<inShutdown, initOnce, initBy, listeners, listenerGroup,
                   listenerMu, sessMu, doneChan, wtServer, lnCloseCalls,
                   wtCloseCalls, closeLog, caller, lstn, frameVars,
                   groupVars, wireVars, wtVars, setupVars, lockVars>>

\* ---------------------------------------------------------- removeSession
\* A removal that signals whenever the set is empty.
RemoveSignalsAnyTime(m) == MapLen(m) = 0

\* removeSession: if len(s.activeSess) == 0 && s.shuttingDown()
RemoveSignals(m) == MapLen(m) = 0 /\ shuttingDown

\* A removeSession that looks at the set and the flag whether or not the
\* session was in the set.
removeSessionAlwaysSignals(h) ==
    /\ sessMu = NoProc
    /\ activeSess' = IF activeSess.isNil THEN activeSess
                     ELSE MapDelete(activeSess, h)
    /\ IF ~activeSess.isNil /\ RemoveSignals(MapDelete(activeSess, h))
       THEN SelectCloseDone(SessP(h), SessP(h), MapDelete(activeSess, h))
       ELSE NoCloseDone

\* func (s *Server) removeSession(sess): Lock; body; deferred Unlock
removeSession(h) ==
    /\ sessMu = NoProc
    /\ IF activeSess.isNil \/ ~Has(activeSess, h)
       THEN /\ UNCHANGED activeSess
            /\ NoCloseDone
       ELSE /\ activeSess' = MapDelete(activeSess, h)
            /\ IF RemoveSignals(MapDelete(activeSess, h))
               THEN SelectCloseDone(SessP(h), SessP(h), MapDelete(activeSess, h))
               ELSE NoCloseDone

\* A session calls removeSession when it terminates (for any reason),
\* possibly more than once, possibly without ever having been added.
SessRemove(h) ==
    /\ ~crashed
    /\ removeSession(h)
    /\ connEv' = NoEv
    /\ UNCHANGED <<inShutdown, initOnce, initBy, listeners, listenerGroup,
                   listenerMu, sessMu, wtServer, lnCloseCalls, wtCloseCalls,
                   caller, lstn, conn, frameVars, groupVars, wireVars,
                   wtVars, setupVars, lockVars>>

\* ---------------------------------------------------------- specification
Next ==
    \/ \E c \in Callers : \E kind \in {"Close", "Shutdown"} : CallerStart(c, kind)
    \/ \E c \in Callers : CallerStore(c)
    \/ \E c \in Callers : CallerInit(c)
    \/ \E c \in Callers : CallerLnClose(c)
    \/ \E c \in Callers : CallerFan(c)
    \/ \E c \in Callers : CallerChk(c)
    \/ \E c \in Callers : CallerSdClose(c)
    \/ \E c \in Callers : CtxDone(c)
    \/ \E c \in Callers : CallerSelect(c)
    \/ \E c \in Callers : CallerForce(c)
    \/ \E c \in Callers : CallerWait(c)
    \/ \E c \in Callers : CallerWtSelect(c)
    \/ \E c \in Callers : CallerWg(c)
    \/ \E l \in Lns : LstnStart(l)
    \/ \E l \in Lns : LstnInit(l)
    \/ \E l \in Lns : LstnAdd(l)
    \/ \E l \in Lns : LstnAccept(l)
    \/ \E l \in Lns : LstnRm(l)
    \/ \E h \in Conns : \E entry \in {"ServeQUICConn", "HandleWebTransport"} :
          ConnStart(h, entry)
    \/ \E h \in Conns : ConnInit(h)
    \/ \E h \in Conns : ConnNativeCheck(h)
    \/ \E h \in Conns : ConnAdd(h)
    \/ \E h \in Conns : SessRemove(h)

Spec == Init /\ [][Next]_vars

\* ===================================================================
\* moq-web/src/frame.ts: BytesBuffer, the ByteSource/ByteSink that holds one
\* frame.  #buf is the backing ArrayBuffer (its length is the capacity),
\* #len the number of valid bytes.  A second copy of the class is kept next
\* to the frame tests; its copyTo differs and is modelled beside the first.
\* ===================================================================
MaxByte == 1
MaxLen == 3

ByteArrays == UNION {[1..n -> 0..MaxByte] : n \in 0..MaxLen}

\* new ArrayBuffer(n) / new Uint8Array(n): zero-filled
Zeros(n) == [i \in 1..n |-> 0]

\* TypedArray.prototype.set(source) at offset 0
Set(target, source) ==
    [i \in 1..Len(target) |-> IF i <= Len(source) THEN source[i] ELSE target[i]]

\* what a destination handed to copyTo can be; the first four are regions of
\* bytes (ByteSource.copyTo takes ArrayBuffer | ArrayBufferView), a number is not
ByteRegions == {"Uint8Array", "ArrayBuffer", "SharedArrayBuffer", "DataView"}
Dests == [kind : ByteRegions \cup {"number"}, data : ByteArrays]

ErrUnsupported == "Unsupported destination type"
ErrTooSmall == "Destination buffer too small"

\* constructor(buffer?: ArrayBuffer | Uint8Array)
BytesBufferNew(kind, buffer) ==
    IF kind = "Uint8Array"
    THEN [buf |-> buffer, len |-> Len(buffer)]
    ELSE [buf |-> buffer, len |-> 0]

\* get byteLength()
byteLength(b) == b.len

\* get bytes(): new Uint8Array(this.#buf, 0, this.#len)
bytes(b) == SubSeq(b.buf, 1, b.len)

\* A write that keeps what an earlier, longer write left behind it.
writeKeepsTail(b, p) ==
    LET nb == IF Len(b.buf) < Len(p) THEN Zeros(Len(p)) ELSE b.buf
    IN  [buf |-> Set(nb, p), len |-> IF b.len < Len(p) THEN Len(p) ELSE b.len]

\* write(p): grow the backing buffer if needed, copy p to its start, and
\* make p's length the valid length
write(b, p) ==
    LET nb == IF Len(b.buf) < Len(p) THEN Zeros(Len(p)) ELSE b.buf
    IN  [buf |-> Set(nb, p), len |-> Len(p)]

\* copyTo(dest) of frame.ts: the result is the error thrown, if any, and the
\* destination's bytes afterwards
copyTo(b, dest) ==
    IF dest.kind \notin {"Uint8Array", "ArrayBuffer", "SharedArrayBuffer"}
    THEN [err |-> ErrUnsupported, data |-> dest.data]
    ELSE IF Len(dest.data) < b.len
    THEN [err |-> ErrTooSmall, data |-> dest.data]
    ELSE LET copyLen == IF b.len < Len(b.buf) THEN b.len ELSE Len(b.buf)
         IN  [err |-> "", data |-> Set(dest.data, SubSeq(b.buf, 1, copyLen))]

\* copyTo(dest) of the second copy of the class: it compares the destination
\* with the capacity and copies the whole backing buffer
copyToWholeBuffer(b, dest) ==
    IF dest.kind \notin {"Uint8Array", "ArrayBuffer", "SharedArrayBuffer"}
    THEN [err |-> ErrUnsupported, data |-> dest.data]
    ELSE IF Len(dest.data) < Len(b.buf)
    THEN [err |-> ErrTooSmall, data |-> dest.data]
    ELSE [err |-> "", data |-> Set(dest.data, b.buf)]

\* new BytesBuffer(...) over any small buffer, by either constructor form
FrameInit ==
    /\ ServerZero
    /\ \E kind \in {"Uint8Array", "ArrayBuffer"}, buffer \in ByteArrays :
          /\ fb = BytesBufferNew(kind, buffer)
          /\ ub = [buf |-> buffer, len |-> 0]
    /\ lastW = <<>>
    /\ fev = [op |-> "none"]
    /\ GroupFresh
    /\ NoWrapper
    /\ NoSetup
    /\ LocksFree

\* buf.write(p) on both buffers
FrameWrite ==
    \E p \in ByteArrays :
       /\ fb' = write(fb, p)
       /\ ub' = write(ub, p)
       /\ lastW' = <<p>>
       /\ fev' = [op |-> "write", p |-> p]
       /\ UNCHANGED <<moqtVars, groupVars, wireVars, wtVars,
                 setupVars, lockVars>>

\* buf.copyTo(dest) on both buffers
FrameCopyTo ==
    \E dest \in Dests :
       /\ fev' = [op |-> "copyTo", dest |-> dest,
                  res |-> copyTo(fb, dest), ures |-> copyToWholeBuffer(ub, dest)]
       /\ UNCHANGED <<fb, ub, lastW, moqtVars, groupVars, wireVars, wtVars,
                 setupVars, lockVars>>

FrameNext == FrameWrite \/ FrameCopyTo

FrameSpec == FrameInit /\ [][FrameNext]_vars

\* ===================================================================
\* moq-web/src/group_stream.ts: GroupWriter / GroupReader, the two ends of a
\* group stream.  Each derives a context from the track context with
\* withCancelCause and arms a watcher on the track context's done().
\* The context library is not part of the sources: a derived context is
\* cancelled with its parent's cause when the parent is cancelled, and the
\* order in which that and the watcher (both hang on the parent's done) run
\* is left open.
\* ===================================================================
SubscribeCanceled == "SubscribeCanceled"
PublishAborted == "PublishAborted"
OtherCode == "ExpiredGroup"
Codes == {SubscribeCanceled, PublishAborted, OtherCode}

\* new WebTransportStreamError({ source: "stream", streamErrorCode: code }, false)
StreamError(code) == [source |-> "stream", streamErrorCode |-> code]

\* the code the constructor's watcher cancels with
WatcherCode(s) == IF s = "writer" THEN SubscribeCanceled ELSE PublishAborted

\* history: remember the first cancel(code) call and who made it
NoteCancel(s, code, who) ==
    IF ghist[s].first = NoCause
    THEN [ghist EXCEPT ![s].first = code, ![s].by = who]
    ELSE ghist

\* cancel(code): nothing if the context is errored; otherwise store the
\* stream error as the cause and reset the transport stream with the code
cancel(s, code, who) ==
    /\ ghist' = NoteCancel(s, code, who)
    /\ IF gctx[s].err
       THEN UNCHANGED <<gctx, stream>>
       ELSE /\ gctx' = [gctx EXCEPT ![s] = [err |-> TRUE, cause |-> StreamError(code)]]
            /\ stream' = [stream EXCEPT ![s].cancels = Append(@, code)]

\* A close() that does not look at the context first.
closeUnguarded ==
    /\ gctx' = [gctx EXCEPT !["writer"] = [err |-> TRUE, cause |-> Canceled]]
    /\ stream' = [stream EXCEPT !["writer"].closes = @ + 1]

\* close(): nothing if the context is errored; otherwise cancel the context
\* with no cause and close the transport stream
close ==
    IF gctx["writer"].err
    THEN UNCHANGED <<gctx, stream>>
    ELSE /\ gctx' = [gctx EXCEPT !["writer"] = [err |-> TRUE, cause |-> Canceled]]
         /\ stream' = [stream EXCEPT !["writer"].closes = @ + 1]

\* the application calls cancel(code) on either end
GroupCancel(s, code) ==
    /\ cancel(s, code, "caller")
    /\ UNCHANGED <<trackDone, pend, moqtVars, frameVars, wireVars, wtVars,
                 setupVars, lockVars>>

\* the application calls close() on the writer
GroupClose ==
    /\ close
    /\ UNCHANGED <<trackDone, pend, ghist, moqtVars, frameVars, wireVars, wtVars,
                 setupVars, lockVars>>

\* the track context is cancelled: for each end, the derived context's
\* cancellation and the constructor's watcher are now due
TrackCancel ==
    /\ ~trackDone
    /\ trackDone' = TRUE
    /\ pend' = Sides \X {"derived", "watcher"}
    /\ ghist' = [s \in Sides |-> [ghist[s] EXCEPT !.live = ~gctx[s].err]]
    /\ UNCHANGED <<gctx, stream, moqtVars, frameVars, wireVars, wtVars,
                 setupVars, lockVars>>

\* withCancelCause(trackCtx): the derived context follows its parent
Propagate(s) ==
    /\ <<s, "derived">> \in pend
    /\ pend' = pend \ {<<s, "derived">>}
    /\ gctx' = IF gctx[s].err THEN gctx
               ELSE [gctx EXCEPT ![s] = [err |-> TRUE, cause |-> ParentCause]]
    /\ UNCHANGED <<trackDone, stream, ghist, moqtVars, frameVars, wireVars, wtVars,
                 setupVars, lockVars>>

\* trackCtx.done().then(() => { this.cancel(code) })
Watcher(s) ==
    /\ <<s, "watcher">> \in pend
    /\ pend' = pend \ {<<s, "watcher">>}
    /\ cancel(s, WatcherCode(s), "watcher")
    /\ UNCHANGED <<trackDone, moqtVars, frameVars, wireVars, wtVars,
                 setupVars, lockVars>>

GroupNext ==
    \/ \E s \in Sides, code \in Codes : GroupCancel(s, code)
    \/ GroupClose
    \/ TrackCancel
    \/ \E s \in Sides : Propagate(s)
    \/ \E s \in Sides : Watcher(s)

GroupSpec == Init /\ [][GroupNext]_vars

\* ===================================================================
\* moq-web/src/group_stream.ts: writeFrame / readFrame over one stream.
\* The send stream and the receive stream are the two ends of an in-memory
\* stream: what the writer's stream accepted is what the reader's stream
\* yields.  The varint codec and the stream adapters are not part of the
\* sources; they follow the QUIC variable-length integer and the stream
\* interface (write/read return an error once the stream was closed, reset
\* or lost).
\* ===================================================================
\* a frame long enough for a two-byte length prefix
BigLen == 64

\* the sources handed to writeFrame: buffers that hold exactly their bytes,
\* buffers whose capacity exceeds the valid length, and one long frame
Payloads == {<<>>, <<1>>, <<0, 1>>}
Sources ==
    {BytesBufferNew("Uint8Array", a) : a \in Payloads}
    \cup {write(BytesBufferNew("ArrayBuffer", [i \in 1..MaxLen |-> 1]), a) : a \in Payloads}
    \cup {BytesBufferNew("Uint8Array", [i \in 1..BigLen |-> 1])}

\* An encoder that keeps the low six bits only.
EncodeVarintLowBits(n) == <<n % (2^6)>>

\* writeVarint: QUIC variable-length integer, 1 byte below 2^6, 2 bytes
\* (prefix 01) below 2^14, 4 bytes (prefix 10) above
EncodeVarint(n) ==
    IF n < 2^6 THEN <<n>>
    ELSE IF n < 2^14 THEN <<2^6 + (n \div 2^8), n % 2^8>>
    ELSE <<2^7 + (n \div 2^24), (n \div 2^16) % 2^8, (n \div 2^8) % 2^8, n % 2^8>>

\* readVarint: the number of bytes the first byte announces
VarintLen(b) == IF b < 2^6 THEN 1 ELSE IF b < 2^7 THEN 2 ELSE IF b < 2^7 + 2^6 THEN 4 ELSE 8

RECURSIVE BigEndian(_)
BigEndian(bs) == IF bs = <<>> THEN 0 ELSE BigEndian(SubSeq(bs, 1, Len(bs) - 1)) * 2^8 + bs[Len(bs)]

\* readVarint: the value of a complete varint
DecodeVarint(bs) == BigEndian(<<bs[1] % 2^6>> \o SubSeq(bs, 2, Len(bs)))

ErrWrite == "write error"
ErrRead == "read error"
ErrEOF == "EOF"

\* the send stream takes bytes: not closed, not reset, not lost
Writable ==
    /\ stream["writer"].closes = 0
    /\ stream["writer"].cancels = <<>>
    /\ ~stream["writer"].broken

\* no more bytes will come: the writer's end was closed or reset
Ended == stream["writer"].closes > 0 \/ stream["writer"].cancels # <<>>

\* the receive stream fails: cancelled here, or lost
Unreadable == stream["reader"].cancels # <<>> \/ stream["reader"].broken

\* bytes written and not yet read
Avail == Len(wire) - rd.pos

\* writeFrame copying the whole backing buffer of the source.
FrameBytesWhole(src) == src.buf

\* const buf = new Uint8Array(src.byteLength); src.copyTo(buf)
FrameBytes(src) ==
    copyTo(src, [kind |-> "Uint8Array", data |-> Zeros(byteLength(src))]).data

\* A writeFrame that goes on to the body when the length prefix failed.
WriteStartIgnoresError(w, src) ==
    /\ wcall[w].pc = "idle"
    /\ \A v \in 1..(w - 1) : wcall[v].pc # "idle"
    /\ flog.started < MaxFrames
    /\ wire' = IF Writable THEN wire \o EncodeVarint(Len(FrameBytes(src))) ELSE wire
    /\ wcall' = [wcall EXCEPT ![w] = [pc |-> "body", bytes |-> FrameBytes(src)]]
    /\ flog' = [flog EXCEPT !.started = @ + 1]
    /\ gev' = [op |-> "none"]
    /\ UNCHANGED <<rd, moqtVars, frameVars, groupVars, wtVars,
                 setupVars, lockVars>>

\* writeFrame(src) up to its first await: copy the source, write the length
\* prefix; on a write error the call returns it
WriteStart(w, src) ==
    /\ wcall[w].pc = "idle"
    /\ \A v \in 1..(w - 1) : wcall[v].pc # "idle"
    /\ flog.started < MaxFrames
    /\ LET b == FrameBytes(src)
           busy == \E v \in 1..MaxWriters : wcall[v].pc # "idle"
       IN  IF Writable
           THEN /\ wire' = wire \o EncodeVarint(Len(b))
                /\ wcall' = [wcall EXCEPT ![w] = [pc |-> "body", bytes |-> b]]
                /\ flog' = [flog EXCEPT !.started = @ + 1,
                                        !.overlapped = @ \/ busy]
                /\ gev' = [op |-> "none"]
           ELSE /\ flog' = [flog EXCEPT !.started = @ + 1, !.failed = TRUE,
                                        !.overlapped = @ \/ busy]
                /\ gev' = [op |-> "writeFrame", ret |-> ErrWrite, wrote |-> <<>>]
                /\ UNCHANGED <<wire, wcall>>
    /\ UNCHANGED <<rd, moqtVars, frameVars, groupVars, wtVars,
                 setupVars, lockVars>>

\* writeFrame after the length prefix went out: write the body and return
WriteBody(w) ==
    /\ wcall[w].pc = "body"
    /\ wcall' = [wcall EXCEPT ![w] = [pc |-> "idle", bytes |-> <<>>]]
    /\ IF Writable
       THEN /\ wire' = wire \o wcall[w].bytes
            /\ flog' = [flog EXCEPT !.written = Append(@, wcall[w].bytes)]
            /\ gev' = [op |-> "writeFrame", ret |-> "", wrote |-> wcall[w].bytes]
       ELSE /\ flog' = [flog EXCEPT !.failed = TRUE]
            /\ gev' = [op |-> "writeFrame", ret |-> ErrWrite, wrote |-> <<>>]
            /\ UNCHANGED wire
    /\ UNCHANGED <<rd, moqtVars, frameVars, groupVars, wtVars,
                 setupVars, lockVars>>

\* readFrame(sink), first half: readVarint
ReadVarint ==
    /\ rd.pc = "idle"
    /\ \/ /\ Unreadable
          /\ gev' = [op |-> "readFrame", ret |-> ErrRead, len |-> 0, sunk |-> <<>>]
          /\ UNCHANGED rd
       \/ /\ ~Unreadable /\ Avail >= 1 /\ Avail >= VarintLen(wire[rd.pos + 1])
          /\ LET k == VarintLen(wire[rd.pos + 1])
             IN  rd' = [pos |-> rd.pos + k, pc |-> "body",
                        len |-> DecodeVarint(SubSeq(wire, rd.pos + 1, rd.pos + k))]
          /\ gev' = [op |-> "none"]
       \/ /\ ~Unreadable /\ Ended
          /\ \A w \in 1..MaxWriters : wcall[w].pc = "idle"
          /\ IF Avail = 0 THEN TRUE ELSE Avail < VarintLen(wire[rd.pos + 1])
          /\ rd' = [rd EXCEPT !.pos = Len(wire)]
          /\ gev' = [op |-> "readFrame", ret |-> ErrEOF, len |-> 0, sunk |-> <<>>]
    /\ UNCHANGED <<wire, wcall, flog, moqtVars, frameVars, groupVars, wtVars,
                 setupVars, lockVars>>

\* A second half of readFrame that hands the sink whatever was read when
\* readFull fails.
ReadBodyPartial ==
    /\ rd.pc = "body"
    /\ Avail < rd.len
    /\ rd' = [pos |-> Len(wire), pc |-> "idle", len |-> 0]
    /\ flog' = [flog EXCEPT !.sunk = Append(@, SubSeq(wire, rd.pos + 1, Len(wire)))]
    /\ gev' = [op |-> "readFrame", ret |-> ErrEOF, len |-> rd.len,
               sunk |-> <<SubSeq(wire, rd.pos + 1, Len(wire))>>]
    /\ UNCHANGED <<wire, wcall, moqtVars, frameVars, groupVars, wtVars,
                 setupVars, lockVars>>

\* readFrame(sink), second half: a buffer of the declared length, readFull,
\* then the sink; a readFull error is returned and the sink is not called
ReadBody ==
    /\ rd.pc = "body"
    /\ \/ /\ rd.len > 0 /\ Unreadable
          /\ rd' = [rd EXCEPT !.pc = "idle", !.len = 0]
          /\ gev' = [op |-> "readFrame", ret |-> ErrRead, len |-> rd.len, sunk |-> <<>>]
          /\ UNCHANGED flog
       \/ /\ IF rd.len = 0 THEN TRUE ELSE ~Unreadable
          /\ Avail >= rd.len
          /\ LET buf == Set(Zeros(rd.len), SubSeq(wire, rd.pos + 1, rd.pos + rd.len))
                 got == bytes(write(BytesBufferNew("ArrayBuffer", <<>>), buf))
             IN  /\ flog' = [flog EXCEPT !.sunk = Append(@, got)]
                 /\ gev' = [op |-> "readFrame", ret |-> "", len |-> rd.len, sunk |-> <<got>>]
          /\ rd' = [pos |-> rd.pos + rd.len, pc |-> "idle", len |-> 0]
       \/ /\ ~Unreadable /\ Ended
          /\ \A w \in 1..MaxWriters : wcall[w].pc = "idle"
          /\ Avail < rd.len
          /\ rd' = [pos |-> Len(wire), pc |-> "idle", len |-> 0]
          /\ gev' = [op |-> "readFrame", ret |-> ErrEOF, len |-> rd.len, sunk |-> <<>>]
          /\ UNCHANGED flog
    /\ UNCHANGED <<wire, wcall, moqtVars, frameVars, groupVars, wtVars,
                 setupVars, lockVars>>

\* the transport under one end fails (peer reset, connection lost)
Break(s) ==
    /\ ~stream[s].broken
    /\ stream' = [stream EXCEPT ![s].broken = TRUE]
    /\ UNCHANGED <<trackDone, pend, gctx, ghist, moqtVars, frameVars, wireVars, wtVars,
                 setupVars, lockVars>>

WireNext ==
    \/ \E w \in 1..MaxWriters, src \in Sources : WriteStart(w, src)
    \/ \E w \in 1..MaxWriters : WriteBody(w)
    \/ ReadVarint
    \/ ReadBody
    \/ \E s \in Sides : Break(s)
    \/ GroupClose
    \/ \E s \in Sides : GroupCancel(s, OtherCode)

WireSpec == Init /\ [][WireNext]_vars

\* ===================================================================
\* webtransport/webtransportgo: NewServer and the serverWrapper around the
\* WebTransport library's Server.
\* ===================================================================
MaxWtCloses == 2

\* const settingsEnableWebtransport uint64 = 0x2b603742
settingsEnableWebtransport == 727725890

\* the checkOrigin arguments: nil, or one of two functions
CheckOrigins == {"nil", "allowAll", "sameHost"}

\* &http3.Server{}
H3Zero ==
    [ConnContext |-> "nil", EnableDatagrams |-> FALSE,
     AdditionalSettings |-> [isNil |-> TRUE, m |-> <<>>]]

\* A ConfigureHTTP3Server that leaves the HTTP/3 server as it is.
ConfigureNothing(h3) == h3

\* ConfigureHTTP3Server(h3): ConnContext injects the QUIC connection,
\* AdditionalSettings[settingsEnableWebtransport] = 1 (the map is made if it
\* is nil), EnableDatagrams = true
ConfigureHTTP3Server(h3) ==
    LET old == h3.AdditionalSettings
        m == IF old.isNil THEN <<>> ELSE old.m
    IN  [ConnContext |-> "inject the QUIC connection",
         EnableDatagrams |-> TRUE,
         AdditionalSettings |->
            [isNil |-> FALSE,
             m |-> [k \in DOMAIN m \cup {settingsEnableWebtransport} |->
                       IF k = settingsEnableWebtransport THEN 1 ELSE m[k]]]]

\* func wrapServer(server) webtransport.Server
wrapServer(server) == [made |-> TRUE, server |-> server, closes |-> 0]

\* func NewServer(checkOrigin) webtransport.Server
NewServer(checkOrigin) ==
    wrapServer([H3 |-> ConfigureHTTP3Server(H3Zero), CheckOrigin |-> checkOrigin])

\* srv := NewServer(checkOrigin)
WtNewServer ==
    /\ wsd.pc = "idle" /\ wsd.go = "none"
    /\ \E checkOrigin \in CheckOrigins :
          /\ wts' = NewServer(checkOrigin)
          /\ wtev' = [op |-> "NewServer", arg |-> checkOrigin]
    /\ UNCHANGED <<wsd, moqtVars, frameVars, groupVars, wireVars,
                 setupVars, lockVars>>

\* wrapper.server.CheckOrigin(&http.Request{}) on a stored function
WtCheckOrigin ==
    /\ wts.made /\ wts.server.CheckOrigin # "nil"
    /\ wtev' = [op |-> "CheckOrigin", called |-> wts.server.CheckOrigin]
    /\ UNCHANGED <<wts, wsd, moqtVars, frameVars, groupVars, wireVars,
                 setupVars, lockVars>>

\* func (w *serverWrapper) ServeQUICConn(conn quic.Connection) error
WtServeQUICConn ==
    /\ wts.made
    /\ \E kind \in {"nil", "wrapped", "other"} :
          wtev' = [op |-> "ServeQUICConn", conn |-> kind,
                   ret |-> CASE kind = "nil" -> RetNil
                             [] kind = "wrapped" -> "server.ServeQUICConn result"
                             [] OTHER -> "invalid connection type"]
    /\ UNCHANGED <<wts, wsd, moqtVars, frameVars, groupVars, wireVars,
                 setupVars, lockVars>>

\* func (w *serverWrapper) Close() error
WtClose ==
    /\ wts.made /\ wts.closes < MaxWtCloses
    /\ wts' = [wts EXCEPT !.closes = @ + 1]
    /\ wtev' = [op |-> "Close"]
    /\ UNCHANGED <<wsd, moqtVars, frameVars, groupVars, wireVars,
                 setupVars, lockVars>>

\* Shutdown(ctx): make closeCh, start the goroutine, reach the select
WtShutdown ==
    /\ wts.made /\ wts.closes < MaxWtCloses
    /\ wsd.pc = "idle" /\ wsd.go = "none"
    /\ \E d \in BOOLEAN :
          wsd' = [pc |-> "select", go |-> "close", ctxDone |-> d, closeCh |-> "open",
                  first |-> IF d THEN "ctx" ELSE "none"]
    /\ wtev' = [op |-> "none"]
    /\ UNCHANGED <<wts, moqtVars, frameVars, groupVars, wireVars,
                 setupVars, lockVars>>

\* the goroutine: _ = w.server.Close()
WtGoClose ==
    /\ wsd.go = "close"
    /\ wsd' = [wsd EXCEPT !.go = "signal",
                          !.first = IF @ = "none" THEN "close" ELSE @]
    /\ wts' = [wts EXCEPT !.closes = @ + 1]
    /\ wtev' = [op |-> "none"]
    /\ UNCHANGED <<moqtVars, frameVars, groupVars, wireVars,
                 setupVars, lockVars>>

\* the goroutine: close(closeCh)
WtGoSignal ==
    /\ wsd.go = "signal"
    /\ wsd' = [wsd EXCEPT !.go = "none", !.closeCh = "closed"]
    /\ wtev' = [op |-> "none"]
    /\ UNCHANGED <<wts, moqtVars, frameVars, groupVars, wireVars,
                 setupVars, lockVars>>

\* the caller's context is done
WtCtxDone ==
    /\ wsd.pc = "select" /\ ~wsd.ctxDone
    /\ wsd' = [wsd EXCEPT !.ctxDone = TRUE,
                          !.first = IF @ = "none" THEN "ctx" ELSE @]
    /\ wtev' = [op |-> "none"]
    /\ UNCHANGED <<wts, moqtVars, frameVars, groupVars, wireVars,
                 setupVars, lockVars>>

\* A Shutdown that waits for the close alone.
WtSelectWaitsForClose ==
    /\ wsd.pc = "select"
    /\ wsd.closeCh = "closed"
    /\ wtev' = [op |-> "Shutdown", ret |-> RetNil, ctxDone |-> wsd.ctxDone,
                closeCh |-> wsd.closeCh, first |-> wsd.first]
    /\ wsd' = [wsd EXCEPT !.pc = "idle"]
    /\ UNCHANGED <<wts, moqtVars, frameVars, groupVars, wireVars,
                 setupVars, lockVars>>

\* select { case <-ctx.Done(): return ctx.Err(); case <-closeCh: return nil }
WtSelect ==
    /\ wsd.pc = "select"
    /\ \E ret \in {"ctx.Err()", RetNil} :
          /\ ret = "ctx.Err()" => wsd.ctxDone
          /\ ret = RetNil => wsd.closeCh = "closed"
          /\ wtev' = [op |-> "Shutdown", ret |-> ret, ctxDone |-> wsd.ctxDone,
                      closeCh |-> wsd.closeCh, first |-> wsd.first]
    /\ wsd' = [wsd EXCEPT !.pc = "idle"]
    /\ UNCHANGED <<wts, moqtVars, frameVars, groupVars, wireVars,
                 setupVars, lockVars>>

WtNext ==
    \/ WtNewServer
    \/ WtCheckOrigin
    \/ WtServeQUICConn
    \/ WtClose
    \/ WtShutdown
    \/ WtGoClose
    \/ WtGoSignal
    \/ WtCtxDone
    \/ WtSelect

WtSpec == Init /\ [][WtNext]_vars

\* ===================================================================
\* Frames on a group stream whose life cycle goes on beside them: one
\* writeFrame at a time and readFrame, with close(), cancel(code) and the
\* cancellation of the track context.
\* ===================================================================
LateNext ==
    \/ TrackCancel
    \/ \E s \in Sides : Propagate(s)
    \/ \E s \in Sides : Watcher(s)
    \/ GroupClose
    \/ \E s \in Sides : GroupCancel(s, OtherCode)
    \/ WriteStart(1, BytesBufferNew("Uint8Array", <<0, 1>>))
    \/ WriteBody(1)
    \/ ReadVarint
    \/ ReadBody

LateSpec == Init /\ [][LateNext]_vars

\* ===================================================================
\* moqt: acceptSessionStream and what its two callers, handleNativeQUIC and
\* HandleWebTransport, do with its result.  An error is the chain errors.As
\* walks: a sequence of layers, the outermost first.
\* ===================================================================
MaxAppCode == 2
AppCodes == 1..MaxAppCode

\* the layers of an error chain
Text(msg) == [t |-> "text", msg |-> msg]
\* *quic.ApplicationError with its error code
ApplicationError(code) == [t |-> "ApplicationError", code |-> code]
\* &SessionError{ApplicationError: appErr}
SessionError(appErr) == [t |-> "SessionError", ApplicationError |-> appErr]

NilErr == <<>>
NoStream == [isNil |-> TRUE]

\* fmt.Errorf(msg + ": %w", err)
Errorf(msg, err) == <<Text(msg)>> \o err

\* errors.As(err, &target) for a target of type t: the first layer of that
\* type in the chain, or no match
NoMatch == [t |-> "none"]
RECURSIVE errorsAs(_, _)
errorsAs(err, t) ==
    IF err = <<>> THEN NoMatch
    ELSE IF Head(err).t = t THEN Head(err)
    ELSE errorsAs(Tail(err), t)

\* what conn.AcceptStream, streamType.Decode and scm.Decode can return: nil,
\* an application error of the connection, bare or wrapped by the reader, or
\* an error without one
TransportErrors ==
    {<<ApplicationError(c)>> : c \in AppCodes}
    \cup {<<Text("read"), ApplicationError(c)>> : c \in AppCodes}
    \cup {<<Text("EOF")>>, <<Text("context deadline exceeded")>>}
StepResults == {NilErr} \cup TransportErrors

SetupEntries == {"handleNativeQUIC", "HandleWebTransport"}

\* the inputs of one setup: the results of the three calls
SetupInput ==
    [accept : StepResults, streamType : StepResults, scm : StepResults]

\* An acceptSessionStream that hands a SESSION_CLIENT decode error on as it is.
acceptSessionStreamUnclassified(in) ==
    IF in.accept # NilErr
    THEN [ss |-> NoStream,
          err |-> Errorf("failed to accept a session stream", in.accept)]
    ELSE IF in.streamType # NilErr
    THEN IF errorsAs(in.streamType, "ApplicationError") # NoMatch
         THEN [ss |-> NoStream,
               err |-> <<SessionError(errorsAs(in.streamType, "ApplicationError"))>>]
         ELSE [ss |-> NoStream,
               err |-> Errorf("moq: failed to receive STREAM_TYPE message",
                              in.streamType)]
    ELSE IF in.scm # NilErr
    THEN [ss |-> NoStream, err |-> in.scm]
    ELSE [ss |-> [isNil |-> FALSE, Path |-> "path parameter"], err |-> NilErr]

\* func acceptSessionStream(acceptCtx, conn, connLogger) (*sessionStream, error)
acceptSessionStream(in) ==
    IF in.accept # NilErr
    THEN [ss |-> NoStream,
          err |-> Errorf("failed to accept a session stream", in.accept)]
    ELSE IF in.streamType # NilErr
    THEN IF errorsAs(in.streamType, "ApplicationError") # NoMatch
         THEN [ss |-> NoStream,
               err |-> <<SessionError(errorsAs(in.streamType, "ApplicationError"))>>]
         ELSE [ss |-> NoStream,
               err |-> Errorf("moq: failed to receive STREAM_TYPE message",
                              in.streamType)]
    ELSE IF in.scm # NilErr
    THEN IF errorsAs(in.scm, "ApplicationError") # NoMatch
         THEN [ss |-> NoStream,
               err |-> <<SessionError(errorsAs(in.scm, "ApplicationError"))>>]
         ELSE [ss |-> NoStream, err |-> in.scm]
    ELSE [ss |-> [isNil |-> FALSE, Path |-> "path parameter"], err |-> NilErr]

\* the caller after acceptSessionStream: on an error, return it wrapped;
\* otherwise (HandleWebTransport: sessStr.Path = r.URL.Path) serve the request
\* with s.SetupHandler, or DefaultRouter when there is none, and return nil
afterAccept(entry, hasHandler, r) ==
    IF r.err # NilErr
    THEN [ret |-> Errorf(IF entry = "handleNativeQUIC"
                         THEN "moq: failed to accept session stream"
                         ELSE "failed to accept session stream", r.err),
          served |-> "none", Path |-> "none"]
    ELSE [ret |-> NilErr,
          served |-> IF hasHandler THEN "SetupHandler" ELSE "DefaultRouter",
          Path |-> IF entry = "HandleWebTransport" THEN "r.URL.Path" ELSE r.ss.Path]

\* sessStr, err := acceptSessionStream(acceptCtx, conn, connLogger)
SetupAccept ==
    /\ su.pc = "idle"
    /\ \E entry \in SetupEntries, hasHandler \in BOOLEAN, in \in SetupInput :
          su' = [pc |-> "accepted", entry |-> entry, hasHandler |-> hasHandler,
                 in |-> in, res |-> acceptSessionStream(in)]
    /\ UNCHANGED <<moqtVars, frameVars, groupVars, wireVars, wtVars, lockVars>>

\* the rest of handleNativeQUIC / HandleWebTransport
SetupReturn ==
    /\ su.pc = "accepted"
    /\ su' = [su EXCEPT !.pc = "returned"] @@
             [out |-> afterAccept(su.entry, su.hasHandler, su.res)]
    /\ UNCHANGED <<moqtVars, frameVars, groupVars, wireVars, wtVars, lockVars>>

SetupNext ==
    \/ SetupAccept
    \/ SetupReturn

SetupSpec == Init /\ [][SetupNext]_vars

\* ===================================================================
\* moqt.Server: the Lock and Unlock calls on listenerMu and sessMu, in the
\* order each function makes them, run by goroutines side by side.
\* ===================================================================
Lock(m) == [op |-> "Lock", mu |-> m]
Unlock(m) == [op |-> "Unlock", mu |-> m]

\* the functions that touch the two mutexes; Shutdown once for each case of
\* its select
LockFns == {"Close", "Shutdown", "Shutdown, ctx done", "addListener",
            "removeListener", "addSession", "removeSession", "goAway"}

\* func (s *Server) goAway(): Lock, deferred Unlock
goAwayLocks == <<Lock("sessMu"), Unlock("sessMu")>>

\* A Close that fans out to the sessions before it lets go of listenerMu.
LockScriptNested(fn) ==
    IF fn = "Close"
    THEN <<Lock("listenerMu"), Lock("sessMu"), Unlock("sessMu"),
           Unlock("listenerMu")>>
    ELSE <<Lock("listenerMu"), Unlock("listenerMu")>>

\* the Lock and Unlock calls of fn on its way from entry to return
LockScript(fn) ==
    CASE fn = "Close" ->
           <<Lock("listenerMu"), Unlock("listenerMu"),
             Lock("sessMu"), Unlock("sessMu"),
             Lock("sessMu"), Unlock("sessMu"),
             Lock("listenerMu"), Unlock("listenerMu")>>
      [] fn = "Shutdown" ->
           <<Lock("listenerMu"), Unlock("listenerMu")>> \o goAwayLocks \o
           <<Lock("sessMu"), Unlock("sessMu"),
             Lock("listenerMu"), Unlock("listenerMu")>>
      [] fn = "Shutdown, ctx done" ->
           <<Lock("listenerMu"), Unlock("listenerMu")>> \o goAwayLocks \o
           <<Lock("sessMu"), Unlock("sessMu"),
             Lock("sessMu"), Unlock("sessMu"),
             Lock("listenerMu"), Unlock("listenerMu")>>
      [] fn = "addListener" -> <<Lock("listenerMu"), Unlock("listenerMu")>>
      [] fn = "removeListener" -> <<Lock("listenerMu"), Unlock("listenerMu")>>
      [] fn = "addSession" -> <<Lock("sessMu"), Unlock("sessMu")>>
      [] fn = "removeSession" -> <<Lock("sessMu"), Unlock("sessMu")>>
      [] fn = "goAway" -> goAwayLocks

\* goroutine p enters fn
LockCall(p, fn) ==
    /\ mtx.at[p].fn = "none"
    /\ mtx' = [mtx EXCEPT !.at[p] = [fn |-> fn, pos |-> 1]]
    /\ UNCHANGED <<moqtVars, frameVars, groupVars, wireVars, wtVars, setupVars>>

\* where p is after the call at pos: at the next one, or out of the function
Advance(p) ==
    IF mtx.at[p].pos = Len(LockScript(mtx.at[p].fn))
    THEN [fn |-> "none", pos |-> 0]
    ELSE [mtx.at[p] EXCEPT !.pos = @ + 1]

\* goroutine p makes its next call: Lock waits until the mutex is free (a
\* sync mutex is not reentrant), Unlock frees it
LockStep(p) ==
    /\ mtx.at[p].fn # "none"
    /\ LET o == LockScript(mtx.at[p].fn)[mtx.at[p].pos] IN
          /\ o.op = "Lock" => mtx.held[o.mu] = Unheld
          /\ mtx' = [mtx EXCEPT !.held[o.mu] = IF o.op = "Lock" THEN p ELSE Unheld,
                                !.at[p] = Advance(p)]
    /\ UNCHANGED <<moqtVars, frameVars, groupVars, wireVars, wtVars, setupVars>>

LockNext ==
    \/ \E p \in LockProcs, fn \in LockFns : LockCall(p, fn)
    \/ \E p \in LockProcs : LockStep(p)

LockSpec == Init /\ [][LockNext]_vars

\* ===================================================================
\* moqt.Server: removeSession seen from outside.  The server with its Close
\* and Shutdown calls and its connection handlers, no listener being served;
\* every removeSession call is noted in connEv with the session it was for.
\* ===================================================================
\* A session calls removeSession when it terminates, possibly more than
\* once, possibly without ever having been added.
SessRemoveNoted(h) ==
    /\ ~crashed
    /\ removeSession(h)
    /\ connEv' = [Ev(h, "removeSession") EXCEPT !.calls = {"removeSession"}]
    /\ UNCHANGED <<inShutdown, initOnce, initBy, listeners, listenerGroup,
                   listenerMu, sessMu, wtServer, lnCloseCalls, wtCloseCalls,
                   caller, lstn, conn, frameVars, groupVars, wireVars,
                   wtVars, setupVars, lockVars>>

RemovalNext ==
    \/ \E c \in Callers : \E kind \in {"Close", "Shutdown"} : CallerStart(c, kind)
    \/ \E c \in Callers : CallerStore(c)
    \/ \E c \in Callers : CallerInit(c)
    \/ \E c \in Callers : CallerLnClose(c)
    \/ \E c \in Callers : CallerFan(c)
    \/ \E c \in Callers : CallerChk(c)
    \/ \E c \in Callers : CallerSdClose(c)
    \/ \E c \in Callers : CtxDone(c)
    \/ \E c \in Callers : CallerSelect(c)
    \/ \E c \in Callers : CallerForce(c)
    \/ \E c \in Callers : CallerWait(c)
    \/ \E c \in Callers : CallerWtSelect(c)
    \/ \E c \in Callers : CallerWg(c)
    \/ \E h \in Conns : \E entry \in {"ServeQUICConn", "HandleWebTransport"} :
          ConnStart(h, entry)
    \/ \E h \in Conns : ConnInit(h)
    \/ \E h \in Conns : ConnNativeCheck(h)
    \/ \E h \in Conns : ConnAdd(h)
    \/ \E h \in Conns : SessRemoveNoted(h)

RemovalSpec == Init /\ [][RemovalNext]_vars


\* ------------------------------------------------------------- properties
\* The Close/Shutdown call of c returns nil in this step.
ReturnsNil(c) == caller[c].pc = "wg" /\ caller'[c].pc = "returned"

\* The closes of the done channel executed so far.
Closes == {closeLog[i] : i \in 1..Len(closeLog)}

\* C1: in every interleaving of Close, Shutdown and removeSession the done
\* channel is closed at most once (no second close(doneChan) is executed),
\* and once a Close or Shutdown call has returned nil it has been closed
\* exactly once.
C1_DoneClosedOnce ==
    /\ Len(closeLog) <= 1
    /\ (doneChan = "closed") <=> (Len(closeLog) = 1)
    /\ \A c \in Callers :
         caller[c].ret = RetNil => Len(closeLog) = 1 /\ doneChan = "closed"

\* A shutdown has completed, the done channel having been closed by the
\* caller itself.
C1_Witness ==
    \E c \in Callers :
      /\ caller[c].ret = RetNil
      /\ Len(closeLog) = 1
      /\ closeLog[1].by[1] = "caller"

\* C2: whenever the done channel is closed the shutdown flag is true, and the
\* step that closed it held sessMu and found the active-session set empty and
\* the flag set; in particular removeSession never closes it while the server
\* is not shutting down.
C2_DoneOnlyInShutdown ==
    /\ doneChan = "closed" => inShutdown
    /\ \A r \in Closes : r.locked /\ r.empty /\ r.flag

\* removeSession has closed the done channel: the removal emptied the set
\* during shutdown.
C2_Witness ==
    /\ doneChan = "closed"
    /\ \E r \in Closes : r.by[1] = "sess"

\* C3: a Close or Shutdown call that starts when the shutdown flag is set
\* returns ErrServerClosed and changes nothing of the server: the listener
\* set, the active-session set, the done channel and the waitgroup are as
\* before, no listener is closed again and no session gets goAway or
\* CloseWithError from the call.
C3_SecondCallRefused ==
    [][\A c \in Callers :
         (caller[c].pc = "idle" /\ caller'[c].pc # "idle" /\ inShutdown)
         => /\ caller'[c].pc = "returned"
            /\ caller'[c].ret = ErrServerClosed
            /\ caller'[c].fanSet = {} /\ caller'[c].forcedSet = {}
            /\ UNCHANGED srvVars]_vars

\* A call has been refused while the call that set the flag is still
\* running.
C3_Witness ==
    \E c, d \in Callers :
      /\ caller[c].ret = ErrServerClosed
      /\ caller[d].pc \notin {"idle", "returned"}

\* C4: Close terminates; in particular it never waits on the listener
\* waitgroup in a state where no accept loop is left to call Done(): when a
\* Close call has reached listenerGroup.Wait() and every ServeQUICListener
\* goroutine has returned (one not yet started is refused by the flag), the
\* counter is zero.
C4_CloseNotBlockedOnWaitgroup ==
    \A c \in Callers :
      (/\ caller[c].op = "Close"
       /\ caller[c].pc = "wg"
       /\ \A l \in Lns : lstn[l].pc \in {"idle", "returned"})
      => listenerGroup = 0

\* C5: graceful shutdown.  When every session that was active at the call of
\* Shutdown has been removed before ctx is done, the call returns without
\* having closed any session with GoAwayTimeoutErrorCode.
C5_GracefulShutdown ==
    [][\A c \in Callers :
         (/\ ReturnsNil(c)
          /\ caller[c].op = "Shutdown"
          /\ caller[c].ctxDone => caller[c].inTime)
         => caller[c].forcedSet = {}]_vars

\* C6: deadline exceeded.  When the select of Shutdown takes the ctx branch
\* with the done channel not closed, the call closes with
\* GoAwayTimeoutErrorCode every session in the active-session set, and it
\* returns nil only with the done channel closed and after the last of those
\* sessions has been removed.
C6_DeadlineExceeded ==
    [][\A c \in Callers :
         /\ (caller[c].pc = "force" /\ caller'[c].pc # "force")
            => caller'[c].forcedSet = activeSess.keys
         /\ (ReturnsNil(c) /\ caller[c].op = "Shutdown" /\ caller[c].ctxFirst)
            => /\ doneChan = "closed"
               /\ caller[c].forcedSet \cap activeSess.keys = {}]_vars

\* C7: a first Shutdown call that finds no active session closes the done
\* channel itself, on an initialised server and on a Server value on which no
\* method has run: its close(doneChan) does not panic.
C7_FirstShutdownClosesDone ==
    \A c \in Callers : caller[c].op = "Shutdown" => caller[c].pc # "panicked"

\* C8: from the moment Close has returned nil the active-session set is
\* empty, whatever the connection handlers that passed their shutdown check
\* before the flag was set do afterwards.
C8_CloseLeavesNoSession ==
    \A c \in Callers :
      (caller[c].op = "Close" /\ caller[c].ret = RetNil) => MapLen(activeSess) = 0

\* C9: an operation that refuses work because it has observed the shutdown
\* flag returns ErrServerClosed and nothing else.
C9_RefusalIsErrServerClosed ==
    /\ connEv.refused => connEv.ret = ErrServerClosed
    /\ \A l \in Lns : lstn[l].refused => lstn[l].ret = ErrServerClosed
    /\ \A c \in Callers :
         (caller[c].pc = "returned" /\ caller[c].ret # RetNil)
         => caller[c].ret = ErrServerClosed

\* What ServeQUICConn has done in the step that dispatched: NextProtoH3
\* invokes the WebTransport server's ServeQUICConn and nothing else,
\* NextProtoMOQ the native-QUIC handler and not the WebTransport server, any
\* other value returns the unsupported-protocol error having invoked nothing.
DispatchedOnALPN ==
    (connEv.entry = "ServeQUICConn" /\ connEv.alpn # "none" /\ ~connEv.refused)
    => /\ connEv.alpn = NextProtoH3
          => connEv.calls = {"wtServer.ServeQUICConn"}
       /\ connEv.alpn = NextProtoMOQ
          => /\ "handleNativeQUIC" \in connEv.calls
             /\ "wtServer.ServeQUICConn" \notin connEv.calls
       /\ connEv.alpn = OtherProto
          => connEv.ret = ErrUnsupportedProtocol /\ connEv.calls = {}

\* C10 as stated: ServeQUICConn dispatches on the ALPN only, and for an
\* unsupported ALPN it returns without changing any server state.
C10_UnsupportedChangesNothing ==
    [][/\ DispatchedOnALPN'
       /\ connEv'.alpn = OtherProto => UNCHANGED srvVars]_vars

\* C10: ServeQUICConn dispatches on the ALPN only, and for an unsupported
\* ALPN it returns without changing any server state other than by the
\* once-guarded lazy init: on a server whose init has already run nothing
\* changes, and in no case do the shutdown flag, the waitgroup, the locks,
\* the listeners' and the WebTransport server's close counts or the closes of
\* the done channel change.
C10_UnsupportedChangesOnlyInit ==
    [][/\ DispatchedOnALPN'
       /\ connEv'.alpn = OtherProto
          => /\ initOnce = "done" => UNCHANGED srvVars
             /\ UNCHANGED <<inShutdown, listenerGroup, listenerMu, sessMu, crashed,
                            lnCloseCalls, wtCloseCalls, closeLog>>]_vars

\* ServeQUICConn has returned the unsupported-protocol error.
C10_Witness ==
    /\ connEv.entry = "ServeQUICConn"
    /\ connEv.alpn = OtherProto
    /\ connEv.ret = ErrUnsupportedProtocol

\* ===================================================================
\* BytesBuffer (FrameSpec)
\* ===================================================================
\* the destination of the last copyTo is a region of bytes at least n long
FitsDest(n) == fev.dest.kind \in ByteRegions /\ Len(fev.dest.data) >= n

\* C17: write(p) replaces the content: afterwards byteLength is p's length and
\* the valid range is p, whatever was written before; a copyTo of frame.ts
\* into a Uint8Array or (Shared)ArrayBuffer of at least that size puts exactly
\* p in the first byteLength positions and leaves the rest of it alone.
C17_WriteReplaces ==
    /\ lastW # <<>> =>
          /\ byteLength(fb) = Len(lastW[1])
          /\ bytes(fb) = lastW[1]
    /\ (lastW # <<>> /\ fev.op = "copyTo" /\ fev.res.err = "") =>
          /\ SubSeq(fev.res.data, 1, byteLength(fb)) = lastW[1]
          /\ \A i \in (byteLength(fb) + 1)..Len(fev.dest.data) :
                fev.res.data[i] = fev.dest.data[i]
    /\ (lastW # <<>> /\ fev.op = "copyTo" /\ FitsDest(byteLength(fb))
        /\ fev.dest.kind # "DataView") => fev.res.err = ""

\* a short write after a longer one, copied out into a destination that is
\* longer than the short write and held other bytes
C17_Witness ==
    /\ fev.op = "copyTo" /\ fev.res.err = ""
    /\ lastW # <<>> /\ Len(lastW[1]) = 1
    /\ Len(fb.buf) = MaxLen /\ fb.buf[2] # 0
    /\ Len(fev.dest.data) = 2 /\ fev.dest.data # SubSeq(fb.buf, 1, 2)

\* C18: copyTo fails exactly when the destination is smaller than byteLength
\* (the valid length, not the capacity) or is not a region of bytes; checked
\* for both copies of the class.
C18_CopyToFailsExactly ==
    fev.op = "copyTo" =>
       /\ fev.res.err # "" <=> ~FitsDest(byteLength(fb))
       /\ fev.ures.err # "" <=> ~FitsDest(byteLength(ub))

\* the same for the destinations copyTo's type test admits
C18_AdmittedKinds ==
    (fev.op = "copyTo" /\ fev.dest.kind # "DataView") =>
       (fev.res.err # "" <=> ~FitsDest(byteLength(fb)))

\* ===================================================================
\* removeSession for a session that is not there (RemovalSpec)
\* ===================================================================
\* the step is a removeSession call for session h
Removes(h) == connEv'.entry = "removeSession" /\ connEv'.h = h

\* C31: removeSession for a session that is not in the active-session set
\* (never added, already removed, or the set not made yet) leaves the set
\* as it is and does not close the done channel, also when the server is
\* shutting down and the set is empty; a session that was removed is not in
\* the set, so removing it a second time changes nothing either.
C31_AbsentRemovalChangesNothing ==
    [][\A h \in Conns : Removes(h) =>
          /\ ~Has(activeSess, h) =>
                UNCHANGED <<activeSess, doneChan, crashed, closeLog>>
          /\ ~Has(activeSess', h)
          /\ activeSess'.isNil = activeSess.isNil
          /\ \A g \in Conns \ {h} : Has(activeSess', g) = Has(activeSess, g)]_vars

\* removeSession was called for a session that is not in the set, the set
\* empty and not nil, the server shutting down, the done channel open
C31_Witness ==
    /\ connEv.entry = "removeSession"
    /\ ~activeSess.isNil /\ MapLen(activeSess) = 0
    /\ inShutdown /\ doneChan = "open" /\ ~crashed

\* ===================================================================
\* The listener waitgroup (Spec)
\* ===================================================================
\* the ServeQUICListener calls that have executed addListener and not yet
\* completed removeListener
InAcceptLoop == {l \in Lns : lstn[l].pc \in {"accept", "rm"}}

\* C32: the listenerGroup counter is the number of ServeQUICListener calls
\* between their addListener and the end of their removeListener: every
\* Add(1) is matched by one Done() when the call returns, so the counter is
\* never negative and is zero once every accept loop has returned.
C32_WaitgroupBalance ==
    listenerGroup = Cardinality(InAcceptLoop)

\* the half that does not depend on Done(): the counter never falls below
\* the number of calls in their accept loop
C32_NeverBelow ==
    listenerGroup >= Cardinality(InAcceptLoop)

\* ===================================================================
\* Group stream life cycle (GroupSpec)
\* ===================================================================
\* C11: cancel is idempotent: once cancel(code) has been called on an end that
\* was not closed (by the application or by the constructor's watcher), the
\* transport stream's cancel has been invoked exactly once, with the first
\* call's code, and the derived context's cause is the stream error built
\* from that code.
C11_CancelIdempotent ==
    \A s \in Sides :
       (ghist[s].first # NoCause /\ stream[s].closes = 0) =>
          /\ stream[s].cancels = <<ghist[s].first>>
          /\ gctx[s].cause = StreamError(ghist[s].first)

\* the part of C11 that does not depend on the track context: while the track
\* context is live, repeated cancel calls reset the stream once, first code
C11_WhileTrackLive ==
    \A s \in Sides :
       (ghist[s].first # NoCause /\ stream[s].closes = 0 /\ ~trackDone) =>
          /\ stream[s].cancels = <<ghist[s].first>>
          /\ gctx[s].cause = StreamError(ghist[s].first)

\* C12: when the track context is cancelled while an end is live, then, once
\* the watcher has run (its call being the first cancel call on that end),
\* the transport stream's cancel has been invoked exactly once with
\* SubscribeCanceled (writer) / PublishAborted (reader) and the derived
\* context's cause is the stream error carrying that code.
C12_ParentCancelPropagates ==
    \A s \in Sides :
       (/\ trackDone /\ ghist[s].live
        /\ <<s, "watcher">> \notin pend
        /\ ghist[s].by = "watcher"
        /\ stream[s].closes = 0) =>
          /\ stream[s].cancels = <<WatcherCode(s)>>
          /\ gctx[s].cause = StreamError(WatcherCode(s))

\* C13: for a GroupWriter, at most one of the transport stream's close() and
\* cancel() is ever invoked, and at most once, over any sequence of close(),
\* cancel(code) and track-context cancellation.
C13_ClosedCancelledAbsorbing ==
    stream["writer"].closes + Len(stream["writer"].cancels) <= 1

\* close(), then cancel(code), then the track context was cancelled and both
\* callbacks of the writer have run
C13_Witness ==
    /\ stream["writer"].closes = 1
    /\ ghist["writer"].first = OtherCode
    /\ trackDone /\ ~ghist["writer"].live
    /\ \A k \in {"derived", "watcher"} : <<"writer", k>> \notin pend

\* ===================================================================
\* Framing (WireSpec)
\* ===================================================================
\* frame ::= varint(length) bytes(length), and a sequence of them on the wire
RECURSIVE Encoded(_)
Encoded(frames) ==
    IF frames = <<>> THEN <<>>
    ELSE EncodeVarint(Len(frames[1])) \o frames[1] \o Encoded(Tail(frames))

\* every writeFrame so far returned before the next one was called
OneAtATime == ~flog.overlapped

\* the arrays handed to writeFrame so far, the one of the call under way last
Handed ==
    flog.written \o
    IF wcall[1].pc = "body" THEN <<wcall[1].bytes>> ELSE <<>>

\* C14: round trip: for writeFrame calls made one after another on a stream
\* that takes them, the arrays the sink has received are, in order and byte
\* for byte, the first of the arrays handed to writeFrame, each delivered
\* once; and when every call has returned, the reader has read all the bytes
\* written and no readFrame is half way, they are all of them.
C14_RoundTrip ==
    (OneAtATime /\ ~flog.failed) =>
       /\ Len(flog.sunk) <= Len(Handed)
       /\ flog.sunk = SubSeq(Handed, 1, Len(flog.sunk))
       /\ (rd.pos = Len(wire) /\ rd.pc = "idle" /\ wcall[1].pc = "idle") =>
             flog.sunk = flog.written

\* two arrays written and read back, the long one and the empty one among them
C14_Witness ==
    /\ OneAtATime /\ ~flog.failed
    /\ Len(flog.written) = MaxFrames
    /\ flog.sunk = flog.written
    /\ \E i, j \in 1..MaxFrames : Len(flog.written[i]) = BigLen /\ flog.written[j] = <<>>

\* C15: wire format: for writeFrame calls made one after another and no write
\* error, the stream holds the encoded frames of the successful calls one
\* after the other, each varint(byteLength) and then the source's valid
\* range, followed only by the length prefix of the call under way, if any;
\* nothing precedes the first frame.
C15_WireFormat ==
    (OneAtATime /\ ~flog.failed) =>
       /\ \A w \in 1..MaxWriters : wcall[w].pc = "body" =>
             wire = Encoded(flog.written) \o EncodeVarint(Len(wcall[w].bytes))
       /\ (\A w \in 1..MaxWriters : wcall[w].pc = "idle") =>
             wire = Encoded(flog.written)
       /\ \A i \in 1..Len(flog.written) : flog.written[i] \in
             {bytes(src) : src \in Sources}

\* two frames on the wire, the second from a source whose backing buffer is
\* longer than its valid range; the wire begins with the first length prefix
C15_Witness ==
    /\ OneAtATime /\ ~flog.failed
    /\ Len(flog.written) = MaxFrames
    /\ flog.written[1] = <<0, 1>> /\ flog.written[2] = <<1>>
    /\ wire = <<2, 0, 1, 1, 1>>
    /\ gev.op = "writeFrame" /\ gev.ret = ""

\* C16: readFrame never delivers a partial frame: a readFrame that returned
\* an error (from readVarint or readFull) did not call the sink, and one that
\* called the sink gave it a buffer of exactly the declared length, filled
\* from the stream, and returned no error.
C16_NoPartialFrame ==
    gev.op = "readFrame" =>
       /\ gev.ret # "" => gev.sunk = <<>>
       /\ gev.ret = "" =>
             /\ Len(gev.sunk) = 1
             /\ Len(gev.sunk[1]) = gev.len
             /\ gev.sunk[1] = SubSeq(wire, rd.pos - gev.len + 1, rd.pos)

\* the writer closed after the length prefix of a frame went out: readFull
\* hit the end of the stream and readFrame returned the error
C16_Witness ==
    /\ gev.op = "readFrame" /\ gev.ret = ErrEOF
    /\ gev.len > 0 /\ gev.sunk = <<>>
    /\ flog.sunk = <<>>

\* ===================================================================
\* WebTransport wrapper (WtSpec)
\* ===================================================================
\* C19: whatever checkOrigin is (nil or a function), the wrapper NewServer
\* returns has an HTTP/3 server with ConnContext non-nil, EnableDatagrams
\* true and AdditionalSettings[0x2b603742] = 1, and its CheckOrigin is the
\* argument; building it writes to no nil map.
C19_NewServerConfigured ==
    /\ wts.made =>
          /\ wts.server.H3.ConnContext # "nil"
          /\ wts.server.H3.EnableDatagrams
          /\ ~wts.server.H3.AdditionalSettings.isNil
          /\ settingsEnableWebtransport \in DOMAIN wts.server.H3.AdditionalSettings.m
          /\ wts.server.H3.AdditionalSettings.m[settingsEnableWebtransport] = 1
    /\ wtev.op = "NewServer" => wts.made /\ wts.server.CheckOrigin = wtev.arg
    /\ wtev.op = "CheckOrigin" => wtev.called = wts.server.CheckOrigin

\* NewServer(nil) has returned
C19_Witness ==
    wtev.op = "NewServer" /\ wtev.arg = "nil" /\ wts.made

\* ===================================================================
\* Order of the shutdown steps (Spec)
\* ===================================================================
\* the step in which caller c's fan-out reaches at least one session
FansOut(c) ==
    caller[c].pc = "fan" /\ caller'[c].pc = "chk" /\ FanOut # {}

\* C20: within a Close or Shutdown call the flag is set before any listener
\* is closed, and when the call's fan-out reaches the first session
\* (CloseWithError / goAway) every listener in the listener set has had
\* Close() called on it.
C20_ShutdownOrdering ==
    [][/\ lnCloseCalls' # lnCloseCalls => inShutdown
       /\ \A c \in Callers : FansOut(c) =>
             \A l \in Lns : Has(listeners, l) => lnCloseCalls[l] > 0]_vars

\* the first half of C20 alone: listeners are closed only once the flag is set
C20_FlagBeforeListeners ==
    [][lnCloseCalls' # lnCloseCalls => inShutdown]_vars

\* ===================================================================
\* Frames after the end of a group stream (LateSpec), write errors and
\* overlapping writes (WireSpec)
\* ===================================================================
\* C23: a writeFrame called on a GroupWriter whose context is errored (after
\* close, cancel(code) or the track context's cancellation) puts no byte on
\* the stream, neither length prefix nor body; a readFrame on a GroupReader
\* whose context is errored takes no byte from the stream and delivers
\* nothing to the sink.
C23_NoFramesAfterEnd ==
    [][/\ (gctx["writer"].err /\ flog'.started # flog.started) => wire' = wire
       /\ (gctx["reader"].err /\ rd.pc = "idle") =>
             (rd' = rd /\ flog'.sunk = flog.sunk)]_vars

\* the same where the end came from close() or cancel(code), the track
\* context being live
C23_AfterCloseOrCancel ==
    [][/\ (gctx["writer"].err /\ ~trackDone /\ flog'.started # flog.started) =>
             wire' = wire
       /\ (gctx["reader"].err /\ ~trackDone /\ rd.pc = "idle") =>
             (rd' = rd /\ flog'.sunk = flog.sunk)]_vars

\* C24: writeFrame returns the first transport error and stops: when the
\* write of the length prefix fails the call returns that error and the body
\* is never written; when the body write fails the call returns that error;
\* it returns no error only if the length prefix was written and then the
\* body.
C24_FirstErrorReturned ==
    [][\A w \in 1..MaxWriters :
          /\ (wcall[w].pc = "idle" /\ flog'.started # flog.started /\ ~Writable) =>
                /\ wcall'[w].pc = "idle" /\ wire' = wire
                /\ gev'.op = "writeFrame" /\ gev'.ret = ErrWrite
          /\ (wcall[w].pc = "idle" /\ wcall'[w].pc = "body") =>
                /\ Writable
                /\ wire' = wire \o EncodeVarint(Len(wcall'[w].bytes))
          /\ (wcall[w].pc = "body" /\ wcall'[w].pc = "idle") =>
                /\ gev'.op = "writeFrame"
                /\ IF Writable
                   THEN gev'.ret = "" /\ wire' = wire \o wcall[w].bytes
                   ELSE gev'.ret = ErrWrite /\ wire' = wire]_vars

\* a body write failed after its length prefix went out: the error came back
\* and the stream holds the prefix alone
C24_Witness ==
    /\ gev.op = "writeFrame" /\ gev.ret = ErrWrite
    /\ flog.started = 1 /\ flog.written = <<>>
    /\ wire = <<1>>

\* the frames written, in each order they can be read in
Orders(frames) ==
    {[i \in 1..Len(frames) |-> frames[p[i]]] : p \in Permutations(1..Len(frames))}

\* C25: also when writeFrame calls overlap, the stream holds whole frames one
\* after another: once every call has returned without error, the bytes are
\* the encoded frames in some order, each length prefix followed at once by
\* its own body.
C25_WholeFramesUnderOverlap ==
    (~flog.failed /\ \A w \in 1..MaxWriters : wcall[w].pc = "idle") =>
       \E fs \in Orders(flog.written) : wire = Encoded(fs)

\* ===================================================================
\* serverWrapper.Shutdown (WtSpec)
\* ===================================================================
\* C26 as stated: Shutdown(ctx) returns nil if the underlying server's Close
\* completed before ctx was done and ctx.Err() if ctx was done first; it
\* returns only after one of the two has happened.
C26_FirstEventDecides ==
    wtev.op = "Shutdown" =>
       /\ wtev.first # "none"
       /\ wtev.first = "close" => wtev.ret = RetNil
       /\ wtev.first = "ctx" => wtev.ret = "ctx.Err()"

\* C26: Shutdown(ctx) returns nil only when the goroutine has signalled that
\* Close completed and ctx.Err() only when ctx is done, so it never returns
\* before one of the two events; when only one of the two is there at the
\* select it is that one's result; and once ctx is done the select can
\* return, whether or not Close has completed.
C26_ShutdownRace ==
    /\ wtev.op = "Shutdown" =>
          /\ wtev.ret = RetNil => wtev.closeCh = "closed"
          /\ wtev.ret = "ctx.Err()" => wtev.ctxDone
          /\ wtev.first # "none"
    /\ (wsd.pc = "select" /\ (wsd.ctxDone \/ wsd.closeCh = "closed")) =>
          ENABLED WtSelect
    /\ (wsd.pc = "select" /\ ~wsd.ctxDone /\ wsd.closeCh # "closed") =>
          ~ENABLED WtSelect

\* Shutdown came back with ctx.Err() while Close had not completed
C26_Witness ==
    /\ wtev.op = "Shutdown" /\ wtev.ret = "ctx.Err()"
    /\ wtev.closeCh = "open" /\ wsd.go = "close"

\* ===================================================================
\* The shutdown's WebTransport-close step, the two locks, concurrent
\* shutdown calls and late listeners (Spec)
\* ===================================================================
\* C27: the WebTransport-close step never blocks Close or Shutdown: whether
\* wtServer.Close returned, panicked or never returns, the caller at the
\* select can go on (the timer case is there when done is not), the step
\* after the select is the wait for the listeners, and a panic of
\* wtServer.Close does not take the process down.
C27_WtCloseNeverBlocks ==
    \A c \in Callers :
       /\ (caller[c].pc = "wtsel" /\ ~crashed) =>
             /\ caller[c].wt \in WtCloseOutcomes
             /\ ENABLED CallerWtSelect(c)
             /\ ENABLED (CallerWtSelect(c) /\ caller'[c].pc = "wg")
       /\ caller[c].wt = "panicked" => (caller[c].pc = "wtsel" /\ ~crashed)

\* wtServer.Close panicked under a caller that stands at the select, and the
\* process lives
C27_Witness ==
    \E c \in Callers :
       caller[c].pc = "wtsel" /\ caller[c].wt = "panicked" /\ ~crashed

\* C21: an Accept error seen while the shutdown flag is set makes
\* ServeQUICListener return ErrServerClosed, never the wrapped accept error;
\* and when ServeQUICListener returns, whatever the reason, its listener is
\* not in the listener set.
C21_AcceptErrorsCollapse ==
    [][\A l \in Lns :
          /\ (lstn[l].pc = "accept" /\ lstn'[l].pc # "accept" /\ inShutdown) =>
                lstn'[l].ret = ErrServerClosed
          /\ (lstn[l].pc = "rm" /\ lstn'[l].pc = "returned") =>
                /\ lstn'[l].ret = lstn[l].ret
                /\ ~Has(listeners', l)
          /\ (lstn[l].pc # "returned" /\ lstn'[l].pc = "returned") =>
                ~Has(listeners', l)]_vars

\* a listener closed by the shutdown: its Accept failed, ServeQUICListener
\* returned ErrServerClosed and the listener is out of the set
C21_Witness ==
    \E l \in Lns :
       /\ lstn[l].pc = "returned" /\ ~lstn[l].refused
       /\ lstn[l].ret = ErrServerClosed
       /\ inShutdown /\ lnCloseCalls[l] > 0 /\ ~Has(listeners, l)

\* a call that went past the shutdown check
Proceeds(c) ==
    \/ caller[c].pc \notin {"idle", "returned"}
    \/ caller[c].pc = "returned" /\ caller[c].ret = RetNil

\* C29: of the Close and Shutdown calls started on one server, one at most
\* goes past the shutdown check and runs the shutdown steps; every other one
\* returns ErrServerClosed.
C29_OneShutdownBody ==
    /\ Cardinality({c \in Callers : Proceeds(c)}) <= 1
    /\ \A c \in Callers : caller[c].pc = "returned" =>
          caller[c].ret \in {RetNil, ErrServerClosed}

\* ServeQUICListener has put its listener into the listener set
Registered(l) ==
    \/ lstn[l].pc \in {"accept", "rm"}
    \/ lstn[l].pc = "returned" /\ ~lstn[l].refused

\* C30: when the Close or Shutdown call that shuts the server down returns,
\* every listener that ServeQUICListener has added to the listener set has
\* had Close() called on it by the shutdown.
C30_EveryListenerClosed ==
    [][\A c \in Callers : ReturnsNil(c) =>
          \A l \in Lns : Registered(l) => lnCloseCalls[l] > 0]_vars

\* ===================================================================
\* Session setup failures (SetupSpec)
\* ===================================================================
\* the application error a failed decode carries, if the accept went well
DecodeAppError(in) ==
    IF in.accept # NilErr THEN NoMatch
    ELSE IF in.streamType # NilErr THEN errorsAs(in.streamType, "ApplicationError")
    ELSE IF in.scm # NilErr THEN errorsAs(in.scm, "ApplicationError")
    ELSE NoMatch

SetupFails(in) == in.accept # NilErr \/ in.streamType # NilErr \/ in.scm # NilErr

\* C22: when decoding STREAM_TYPE or SESSION_CLIENT fails with an application
\* error, acceptSessionStream returns a SessionError that carries it; every
\* other accept or decode failure gives an error that is no SessionError; in
\* every failure no sessionStream is produced and the caller returns an error
\* without calling the setup handler.
C22_SetupFailures ==
    su.pc \in {"accepted", "returned"} =>
       /\ DecodeAppError(su.in) # NoMatch =>
             su.res.err = <<SessionError(DecodeAppError(su.in))>>
       /\ (SetupFails(su.in) /\ DecodeAppError(su.in) = NoMatch) =>
             /\ su.res.err # NilErr
             /\ errorsAs(su.res.err, "SessionError") = NoMatch
       /\ SetupFails(su.in) => su.res.ss = NoStream
       /\ (SetupFails(su.in) /\ su.pc = "returned") =>
             /\ su.out.ret # NilErr
             /\ su.out.served = "none"
       /\ (~SetupFails(su.in) /\ su.pc = "returned") =>
             /\ su.out.ret = NilErr
             /\ su.out.served # "none"

\* SESSION_CLIENT failed with a wrapped application error: the caller came
\* back with an error around the SessionError and served nothing
C22_Witness ==
    /\ su.pc = "returned"
    /\ su.in.accept = NilErr /\ su.in.streamType = NilErr
    /\ su.in.scm = <<Text("read"), ApplicationError(MaxAppCode)>>
    /\ errorsAs(su.out.ret, "SessionError") = SessionError(ApplicationError(MaxAppCode))
    /\ su.out.served = "none"

\* ===================================================================
\* The two mutexes (LockSpec)
\* ===================================================================
\* the mutexes goroutine p holds
HeldBy(p) == {m \in Mutexes : mtx.held[m] = p}

\* C28: no goroutine holds listenerMu and sessMu at the same time: in Close,
\* Shutdown, addListener, removeListener, addSession, removeSession and
\* goAway no mutex is locked by a goroutine that holds the other one, and a
\* goroutine outside these functions holds none.
C28_LocksDisjoint ==
    \A p \in LockProcs :
       /\ Cardinality(HeldBy(p)) <= 1
       /\ mtx.at[p].fn = "none" => HeldBy(p) = {}

\* both mutexes are held at once, by two goroutines: Close inside its second
\* listenerMu section, removeSession inside sessMu
C28_Witness ==
    \E p, q \in LockProcs :
       /\ mtx.at[p].fn = "Close" /\ mtx.at[p].pos = Len(LockScript("Close"))
       /\ mtx.held["listenerMu"] = p
       /\ mtx.at[q].fn = "removeSession" /\ mtx.held["sessMu"] = q

====
